---- MODULE Spec2Model ----
(***************************************************************************)
(* A model of yr-data-store: the DataStore key/reference engine, the       *)
(* handler pipeline that wraps the handled methods (set, reset, fetch),    *)
(* and the freshness-aware fetch engine of FetchableDataStore.             *)
(*                                                                         *)
(* JavaScript strings are sequences of tokens: a token is a path segment   *)
(* ("a", "b", "key"), the separator "/" or the reference marker "__ref:".  *)
(* split, join, slice and indexOf work on these sequences as the           *)
(* JavaScript built-ins work on characters.                                *)
(*                                                                         *)
(* A JavaScript value is a record [t, s, n, kids]: t is the type tag, s    *)
(* the tokens of a string, n the number (or 0/1 of a boolean) and kids     *)
(* the own properties of a plain object.                                   *)
(***************************************************************************)
EXTENDS Integers, Sequences, FiniteSets, TLC

\* ------------------------------------------------------------------------
\* JavaScript values
\* ------------------------------------------------------------------------

NoKids == <<>>

Undef == [t |-> "undef", s |-> <<>>, n |-> 0, kids |-> NoKids]

Str(s) == [t |-> "str", s |-> s, n |-> 0, kids |-> NoKids]

Num(n) == [t |-> "num", s |-> <<>>, n |-> n, kids |-> NoKids]

Bool(b) == [t |-> "bool", s |-> <<>>, n |-> IF b THEN 1 ELSE 0, kids |-> NoKids]

Obj(kids) == [t |-> "obj", s |-> <<>>, n |-> 0, kids |-> kids]

\* A thrown error (TypeError, the transport's error) as a value.
Err(name) == [t |-> "error", s |-> <<name>>, n |-> 0, kids |-> NoKids]

EmptyObj == Obj(NoKids)

\* An array: kids is the sequence of its elements.
Arr(items) == [t |-> "arr", s |-> <<>>, n |-> 0, kids |-> items]

Null == [t |-> "null", s |-> <<>>, n |-> 0, kids |-> NoKids]

\* JavaScript truthiness (!value is ~Truthy(value)).
Truthy(v) ==
  CASE v.t = "undef" -> FALSE
    [] v.t = "str" -> v.s # <<>>
    [] v.t = "num" -> v.n # 0
    [] v.t = "bool" -> v.n = 1
    [] v.t = "null" -> FALSE
    [] OTHER -> TRUE

isPlainObject(v) == v.t = "obj"

\* The property name a string (token sequence) denotes. Property names of the
\* model are single tokens; the empty string is the property "".
PropName(name) == IF Len(name) = 1 THEN name[1] ELSE ""

\* name in value
HasProp(value, name) ==
  value.t = "obj" /\ PropName(name) \in DOMAIN value.kids

\* value[name] for a property name given as a string (token sequence). A
\* string or a number has no property the model names (only indices, length).
Prop(value, name) ==
  IF HasProp(value, name) THEN value.kids[PropName(name)] ELSE Undef

\* value with value[name] = v (a copy: the model has no object identity).
WithProp(value, name, v) ==
  Obj([k \in (DOMAIN value.kids) \cup {PropName(name)} |->
         IF k = PropName(name) THEN v ELSE value.kids[k]])

\* object-assign of two plain objects: the own properties of b over those of a.
assign(a, b) ==
  Obj([k \in (DOMAIN a.kids) \cup (DOMAIN b.kids) |->
         IF k \in DOMAIN b.kids THEN b.kids[k] ELSE a.kids[k]])

\* ------------------------------------------------------------------------
\* Strings
\* ------------------------------------------------------------------------

SEP == "/"

REF_KEY == "__ref:"

\* str.charAt(0) == ch
StartsWith(str, ch) == Len(str) > 0 /\ str[1] = ch

\* str.indexOf(sub) == 0
IsPrefix(sub, str) ==
  Len(sub) <= Len(str) /\ SubSeq(str, 1, Len(sub)) = sub

\* A pattern /sub/ tested on str: sub occurs somewhere in str.
Contains(str, sub) ==
  \E i \in 0..(Len(str) - Len(sub)) : SubSeq(str, i + 1, i + Len(sub)) = sub

RECURSIVE splitFrom(_, _)
splitFrom(str, cur) ==
  IF str = <<>> THEN <<cur>>
  ELSE IF Head(str) = SEP THEN <<cur>> \o splitFrom(Tail(str), <<>>)
  ELSE splitFrom(Tail(str), Append(cur, Head(str)))

\* str.split('/'): the segments of str, each a string.
Split(str) == splitFrom(str, <<>>)

RECURSIVE Join(_)
\* segs.join('/')
Join(segs) ==
  IF segs = <<>> THEN <<>>
  ELSE IF Len(segs) = 1 THEN segs[1]
  ELSE segs[1] \o <<SEP>> \o Join(Tail(segs))

\* ------------------------------------------------------------------------
\* Reference resolver (DataStore.js)
\* ------------------------------------------------------------------------

_isRefValue(value) ==
  IF ~Truthy(value) THEN FALSE
  ELSE value.t = "str" /\ StartsWith(value.s, REF_KEY)

\* ref.slice(REF_KEY.length) of a string ref
_parseRefKey(ref) == IF StartsWith(ref, REF_KEY) THEN Tail(ref) ELSE ref

RECURSIVE walkRef(_, _, _, _)
\* The while loop of _resolveRefKey from position idx (0-based) at node value:
\* the idx and ref it ends with.
walkRef(value, segs, idx, key) ==
  IF ~(idx < Len(segs)) THEN [idx |-> idx, ref |-> key]
  ELSE LET next == Prop(value, segs[idx + 1])
       IN IF next.t \in {"undef", "null"} THEN [idx |-> idx, ref |-> key]
          ELSE IF _isRefValue(next)
               THEN [idx |-> idx, ref |-> _parseRefKey(next.s)]
               ELSE walkRef(next, segs, idx + 1, key)

\* The resolver without the relative keys appended
resolveToTarget(data, key0) ==
  IF _isRefValue(Str(key0)) THEN _parseRefKey(key0)
  ELSE LET key == IF StartsWith(key0, SEP) THEN Tail(key0) ELSE key0
       IN walkRef(data, Split(key), 0, key).ref

_resolveRefKey(data, key0) ==
  IF _isRefValue(Str(key0)) THEN _parseRefKey(key0)
  ELSE LET key == IF StartsWith(key0, SEP) THEN Tail(key0) ELSE key0
           segs == Split(key)
           n == Len(segs)
           w == walkRef(data, segs, 0, key)
       IN IF w.ref # key /\ w.idx < n - 1
          THEN w.ref \o <<SEP>> \o Join(SubSeq(segs, w.idx + 2, n))
          ELSE w.ref

\* ------------------------------------------------------------------------
\* Path accessor (the @yr/property collaborator) and get (methods/get)
\* ------------------------------------------------------------------------

RECURSIVE getPath(_, _)
getPath(value, segs) ==
  IF segs = <<>> THEN value
  ELSE getPath(Prop(value, Head(segs)), Tail(segs))

\* property.get(data, key): the value at the path key; the whole of data for
\* the empty key.
propertyGet(data, key) ==
  IF key = <<>> THEN data
  ELSE getPath(data, Split(IF StartsWith(key, SEP) THEN Tail(key) ELSE key))

RECURSIVE merge(_, _)
\* value merged into the mapping old (deep).
merge(old, value) ==
  Obj([k \in (DOMAIN old.kids) \cup (DOMAIN value.kids) |->
         IF k \notin DOMAIN value.kids THEN old.kids[k]
         ELSE IF k \in DOMAIN old.kids
                 /\ isPlainObject(old.kids[k]) /\ isPlainObject(value.kids[k])
              THEN merge(old.kids[k], value.kids[k])
              ELSE value.kids[k]])

RECURSIVE setPath(_, _, _, _)
setPath(node, segs, value, doMerge) ==
  LET base == IF isPlainObject(node) THEN node ELSE EmptyObj
      old == Prop(base, Head(segs))
  IN IF Len(segs) = 1
     THEN WithProp(base, Head(segs),
                   IF doMerge /\ isPlainObject(value) /\ isPlainObject(old)
                   THEN merge(old, value) ELSE value)
     ELSE WithProp(base, Head(segs), setPath(old, Tail(segs), value, doMerge))

\* property.set(data, key, value, options): the tree with value at the path
\* key, missing nodes on the path created, value merged into an existing
\* mapping when options.merge is set.
propertySet(data, key, value, options) ==
  setPath(data, Split(IF StartsWith(key, SEP) THEN Tail(key) ELSE key), value,
          Truthy(Prop(options, <<"merge">>)))

\* The largest number of alias hops dereferencing follows.
MaxHops == 4

RECURSIVE deref(_, _, _)
\* value with every alias in it replaced by the dereferenced value of its
\* target; a reference-cycle error once hops are used up.
deref(data, value, hops) ==
  IF _isRefValue(value)
  THEN IF hops = 0 THEN Err("reference cycle")
       ELSE deref(data,
                  propertyGet(data, _resolveRefKey(data, _parseRefKey(value.s))),
                  hops - 1)
  ELSE IF isPlainObject(value)
       THEN Obj([k \in DOMAIN value.kids |-> deref(data, value.kids[k], hops)])
  ELSE IF value.t = "arr"
       THEN Arr([i \in 1..Len(value.kids) |-> deref(data, value.kids[i], hops)])
       ELSE value

\* get(store, key): key is a JavaScript value (a string, or undefined for all
\* of the data).
get(data, key) ==
  deref(data,
        propertyGet(data, _resolveRefKey(data, IF key.t = "str" THEN key.s ELSE <<>>)),
        MaxHops)

\* reference(store, key): the alias-encoded string of the resolved key.
reference(data, key) == Str(<<REF_KEY>> \o _resolveRefKey(data, key))

\* ------------------------------------------------------------------------
\* set (methods/set)
\* ------------------------------------------------------------------------

\* runtime.isBrowser: the model runs on the server runtime.
isBrowser == FALSE

DEFAULT_OPTIONS ==
  Obj([immutable |-> Bool(isBrowser), merge |-> Bool(TRUE)])

\* assign({}, defaults, options): a string source contributes its index
\* properties only and undefined contributes nothing, so neither changes an
\* option.
assignOptions(defaults, options) ==
  IF isPlainObject(options) THEN assign(defaults, options) ELSE defaults

doSet(data, key0, value, options) ==
  LET key == _resolveRefKey(data, key0)
  IN IF Truthy(Prop(options, <<"immutable">>))
     THEN LET newData == propertySet(data, key, value, options)
          IN IF newData # data THEN newData ELSE data
     ELSE propertySet(data, key, value, options)

\* The name k of a property as the string it is
KeyOf(k) == IF k = "" THEN <<>> ELSE <<k>>

RECURSIVE setHash(_, _, _, _)
\* for (const k in key) doSet(store, k, key[k], options) over the properties
\* names of the mapping key that are still to be written
setHash(data, key, names, options) ==
  IF names = {} THEN data
  ELSE LET k == CHOOSE name \in names : TRUE
       IN setHash(doSet(data, KeyOf(k), key.kids[k], options), key,
                  names \ {k}, options)

\* set(store, key, value, options) for a string key or a mapping of keys to
\* values; the tree it leaves.
set(data, key, value, options0) ==
  IF ~Truthy(key) THEN data
  ELSE LET options == assignOptions(DEFAULT_OPTIONS, options0)
       IN IF key.t = "str" THEN doSet(data, key.s, value, options)
          ELSE IF isPlainObject(key)
               THEN setHash(data, key, DOMAIN key.kids, options)
               ELSE data

\* reset(store, data)
reset(data, newData) == newData

\* ------------------------------------------------------------------------
\* HandlerContext (HandlerContext.js)
\* ------------------------------------------------------------------------

\* args[i] (0-based) of a JavaScript array or string args
ArgAt(args, i) == IF i + 1 <= Len(args) THEN args[i + 1] ELSE Undef

\* constructor (store, signature, args): the fields copied from args, named
\* by signature[i]; a later assignment to the same field wins. No signature
\* of the program has a variadic ('...') entry.
HandlerContext(store, signature, args) ==
  [signature |-> signature,
   fields |->
     [prop \in {signature[i] : i \in 1..Len(signature)} |->
        LET i == CHOOSE j \in 1..Len(signature) :
                   /\ signature[j] = prop
                   /\ \A m \in (j + 1)..Len(signature) : signature[m] # prop
        IN ArgAt(args, i - 1)]]

\* context.toArguments()
toArguments(context) ==
  [i \in 1..Len(context.signature) |-> context.fields[context.signature[i]]]

\* this[prop] of a context
Field(context, prop) ==
  IF prop \in DOMAIN context.fields THEN context.fields[prop] ELSE Undef

\* this[prop] = v on a context
WithField(context, prop, v) ==
  [context EXCEPT !.fields =
     [f \in (DOMAIN context.fields) \cup {prop} |->
        IF f = prop THEN v ELSE context.fields[f]]]

\* batchKey, "Convert existing to hash/array": a string key becomes the
\* sequence [key] or the mapping {key: value}, and a value the context has is
\* set to null
convertExisting(context, asArray) ==
  IF Field(context, "key").t = "str"
  THEN [context EXCEPT !.fields =
          [f \in (DOMAIN context.fields) \cup {"key"} |->
             IF f = "key"
             THEN IF asArray THEN Arr(<<Field(context, "key")>>)
                  ELSE WithProp(EmptyObj, Field(context, "key").s,
                                Field(context, "value"))
             ELSE IF f = "value" THEN Null ELSE context.fields[f]]]
  ELSE context

\* batchKey, the string-key branches: this.key.push(key) when value is
\* undefined, this.key[key] = value otherwise
addKey(context, key, value, asArray) ==
  IF asArray
  THEN WithField(context, "key", Arr(Append(Field(context, "key").kids, Str(key))))
  ELSE WithField(context, "key", WithProp(Field(context, "key"), key, value))

\* context.batchKey(key, value) for a string key: the key of the context
\* becomes a mapping of keys to values (a sequence of keys when value is
\* undefined) that holds the key given as well.
batchKey(context, key, value) ==
  addKey(convertExisting(IF ~Truthy(Field(context, "key"))
                         THEN WithField(context, "key", Str(<<>>))
                         ELSE context,
                         value = Undef),
         key, value, value = Undef)

\* context.mergeOptions(options): this.options = assign({}, options,
\* this.options)
mergeOptions(context, options) ==
  WithField(context, "options", assignOptions(options, Field(context, "options")))

\* ------------------------------------------------------------------------
\* Handler pipeline (DataStore.js)
\* ------------------------------------------------------------------------

\* The argument signatures of the handled methods (fetch is registered by
\* FetchableDataStore).
HANDLED_METHODS ==
  [reset |-> <<"data">>,
   set |-> <<"key", "value", "options">>,
   fetch |-> <<"key", "url", "options">>]

\* The characters of a method name: what indexing the name gives.
NameChars ==
  [reset |-> <<"r", "e", "s", "e", "t">>,
   set |-> <<"s", "e", "t">>,
   fetch |-> <<"f", "e", "t", "c", "h">>]

\* A signature as the JavaScript array of strings it is.
AsStrings(signature) == [i \in 1..Len(signature) |-> Str(<<signature[i]>>)]

\* A matcher is [kind, s]: a string (kind "str", the empty string when use()
\* was given no matcher) or a pattern /s/ (kind "re").
NoMatch == [kind |-> "str", s |-> <<>>]

\* String(key): what match.test(key) tests the pattern on. A plain object
\* gives '[object Object]', in which the letter b is a token of its own as it
\* is in a pattern.
keyString(key) ==
  CASE key.t = "str" -> key.s
    [] key.t = "obj" -> <<"[o", "b", "ject Object]">>
    [] OTHER -> <<key.t>>

\* A matching that accepts every key whatever the matcher
isMatchKeyAny(key, match) == "true"

\* _isMatchKey(key, match): "true", "false", or "throw" when key.indexOf is
\* not a function (key is no string).
_isMatchKey(key, match) ==
  IF match.kind = "str" /\ match.s = <<>> THEN "true"
  ELSE IF match.kind = "re"
       THEN IF Contains(keyString(key), match.s) THEN "true" ELSE "false"
  ELSE IF match.kind = "str"
       THEN IF key.t # "str" THEN "throw"
            ELSE IF IsPrefix(match.s, key.s) THEN "true" ELSE "false"
  ELSE "false"

\* The key and value a batching handler adds, the options a merging
\* handler offers
BatchedKey == <<"b">>

BatchedValue == Str(<<"v2">>)

OfferedOptions == Obj([merge |-> Bool(FALSE)])

\* What a handler function does with the context it is given: batchB calls
\* context.batchKey('b', 'v2'), mergeO calls context.mergeOptions({merge:
\* false}); the others observe the context and leave it as it is.
runHandler(handler, context) ==
  CASE handler = "batchB" -> batchKey(context, BatchedKey, BatchedValue)
    [] handler = "mergeO" -> mergeOptions(context, OfferedOptions)
    [] OTHER -> context

RECURSIVE dispatch(_, _, _, _)
\* The loop over this._handlers from index i (1-based) on: the handlers
\* invoked, in order, the context they leave, and whether matching threw.
dispatch(hs, i, key, acc) ==
  IF i > Len(hs) THEN acc
  ELSE LET m == _isMatchKey(key, hs[i].match)
       IN IF m = "throw" THEN [acc EXCEPT !.threw = TRUE]
          ELSE IF m = "true"
               THEN dispatch(hs, i + 1, key,
                      [acc EXCEPT !.invoked = Append(@, hs[i].handler),
                                  !.context = runHandler(hs[i].handler, @)])
               ELSE dispatch(hs, i + 1, key, acc)

\* _routeHandledMethod(methodName, fn, signature, ...args) up to the call of
\* fn: the arguments fn is called with (after the store), the handlers
\* invoked, and whether the routing threw (fn is then not called).
_routeHandledMethod(hs, methodName, args) ==
  LET signature == HANDLED_METHODS[methodName]
      isKeyed == signature[1] = "key"
      key0 == IF ArgAt(args, 0).t = "undef" THEN Str(<<>>) ELSE ArgAt(args, 0)
      rest == Tail(args)
      key == IF isKeyed /\ Truthy(key0) /\ key0.t = "str" /\ StartsWith(key0.s, SEP)
             THEN Str(Tail(key0.s)) ELSE key0
  IN IF Len(hs) # 0
     THEN \* new HandlerContext(this, methodName, signature, args): the
          \* constructor takes the first three of the four.
          LET context == HandlerContext("store", NameChars[methodName],
                                        AsStrings(signature))
              d == dispatch(hs, 1, key,
                            [invoked |-> <<>>, context |-> context, threw |-> FALSE])
          IN [args |-> toArguments(d.context), invoked |-> d.invoked,
              threw |-> d.threw]
     ELSE [args |-> <<key>> \o rest, invoked |-> <<>>, threw |-> FALSE]

\* ------------------------------------------------------------------------
\* DataStore (DataStore.js): state and public methods
\* ------------------------------------------------------------------------

\* What a call on the store leaves: the tree, the handlers invoked in order,
\* whether the bound implementation was executed, whether the call threw.
Outcome(d, invoked, executed, threw) ==
  [data |-> d, invoked |-> invoked, executed |-> executed, threw |-> threw]

\* const value = fn(this, ...context.toArguments()) for set, r being what
\* the routing through the handlers left; a throwing handler match leaves
\* the tree alone.
setRouted(d, r) ==
  IF r.threw THEN Outcome(d, r.invoked, FALSE, TRUE)
  ELSE Outcome(set(d, r.args[1], r.args[2], r.args[3]), r.invoked, TRUE, FALSE)

\* A set that writes whether the store is writable or not
setUnguarded(d, hs, writable, key, value, options) ==
  LET r == _routeHandledMethod(hs, "set", <<key, value, options>>)
  IN Outcome(set(d, r.args[1], r.args[2], r.args[3]), r.invoked, TRUE, FALSE)

\* DataStore.set(key, value, options) for a string key
DataStore_set(d, hs, writable, key, value, options) ==
  IF ~writable \/ ~Truthy(key) THEN Outcome(d, <<>>, FALSE, FALSE)
  ELSE IF key.t = "str"
       THEN setRouted(d, _routeHandledMethod(hs, "set", <<key, value, options>>))
       ELSE Outcome(d, <<>>, FALSE, FALSE)

\* update(store, key, value, options): stores value at key through
\* store.set and notifies the listeners.
update(d, hs, writable, key, value, options) ==
  DataStore_set(d, hs, writable, key, value, options)

\* DataStore.update(key, value, options)
DataStore_update(d, hs, writable, key, value, options) ==
  IF ~writable \/ ~Truthy(key) THEN Outcome(d, <<>>, FALSE, FALSE)
  ELSE update(d, hs, writable, key, value, options)

\* DataStore.reset(data)
DataStore_reset(d, hs, newData) ==
  LET r == _routeHandledMethod(hs, "reset", <<newData>>)
  IN IF r.threw THEN Outcome(d, r.invoked, FALSE, TRUE)
     ELSE Outcome(reset(d, r.args[1]), r.invoked, TRUE, FALSE)

\* DataStore.use(match, handler) for one pair
use(hs, match, handler) == Append(hs, [handler |-> handler, match |-> match])

\* this._handlers.splice(j, 1), j counted from 1
splice(hs, j) == SubSeq(hs, 1, j - 1) \o SubSeq(hs, j + 1, Len(hs))

\* A loop that stops at the first entry it removes
RECURSIVE unuseFirst(_, _, _)
unuseFirst(hs, j, handler) ==
  IF j < 1 THEN hs
  ELSE IF hs[j].handler = handler THEN splice(hs, j)
  ELSE unuseFirst(hs, j - 1, handler)

\* while (--j >= 0) if (_handlers[j].handler === handler) splice(j, 1):
\* the registry is walked from its last entry down to its first.
RECURSIVE unuseLoop(_, _, _)
unuseLoop(hs, j, handler) ==
  IF j < 1 THEN hs
  ELSE unuseLoop(IF hs[j].handler = handler THEN splice(hs, j) ELSE hs,
                 j - 1, handler)

\* DataStore.unuse(match, handler) for one pair; the matcher is not looked at.
unuse(hs, match, handler) == unuseLoop(hs, Len(hs), handler)

\* DataStore.unuse([[match, handler], ...]): the pairs in turn
RECURSIVE unuseBatch(_, _)
unuseBatch(hs, matches) ==
  IF matches = <<>> THEN hs
  ELSE unuseBatch(unuse(hs, matches[1][1], matches[1][2]), Tail(matches))

\* What a handler function that changes the registry does to it when it is
\* called: dropSelf calls store.unuse(dropSelf), addH2 calls store.use(h2);
\* h1 and h2 leave it alone.
changeRegistry(handler, hs) ==
  CASE handler = "dropSelf" -> unuse(hs, NoMatch, "dropSelf")
    [] handler = "addH2" -> use(hs, NoMatch, "h2")
    [] OTHER -> hs

RECURSIVE dispatchLive(_, _, _, _, _)
\* for (let i = 0, n = this._handlers.length; i < n; i++) over a registry
\* that the handlers change in place: n is read once, this._handlers[i] at
\* every turn (i is 1-based here), and reading .match of an index past the
\* end of the registry is a TypeError.
dispatchLive(hs, i, n, key, acc) ==
  IF i > n THEN [acc EXCEPT !.handlers = hs]
  ELSE IF i > Len(hs) THEN [acc EXCEPT !.handlers = hs, !.threw = TRUE]
  ELSE LET m == _isMatchKey(key, hs[i].match)
       IN IF m = "throw" THEN [acc EXCEPT !.handlers = hs, !.threw = TRUE]
          ELSE IF m = "true"
               THEN dispatchLive(changeRegistry(hs[i].handler, hs), i + 1, n, key,
                      [acc EXCEPT !.invoked = Append(@, hs[i].handler),
                                  !.context = runHandler(hs[i].handler, @)])
               ELSE dispatchLive(hs, i + 1, n, key, acc)

\* DataStore.set(key, value, options) for a string key on a store whose
\* handlers change the registry: the outcome of the call and the registry
\* it leaves.
setLive(d, hs, writable, key, value, options) ==
  IF ~writable \/ ~Truthy(key) \/ Len(hs) = 0
  THEN [out |-> DataStore_set(d, hs, writable, key, value, options), handlers |-> hs]
  ELSE LET k == IF StartsWith(key.s, SEP) THEN Str(Tail(key.s)) ELSE key
           context == HandlerContext("store", NameChars["set"],
                                     AsStrings(HANDLED_METHODS["set"]))
           r == dispatchLive(hs, 1, Len(hs), k,
                             [invoked |-> <<>>, context |-> context,
                              threw |-> FALSE, handlers |-> hs])
           args == toArguments(r.context)
       IN [out |-> IF r.threw THEN Outcome(d, r.invoked, FALSE, TRUE)
                   ELSE Outcome(set(d, args[1], args[2], args[3]),
                                r.invoked, TRUE, FALSE),
           handlers |-> r.handlers]

\* ------------------------------------------------------------------------
\* Cursors and destroy (DataStore.js)
\* ------------------------------------------------------------------------

\* new Cursor(key, store): a cursor is known by its place in the sequence of
\* the cursors made; destroyed says that its destroy() was called.
Cursor(key) == [key |-> key, destroyed |-> FALSE]

\* A createCursor that registers the cursor under the resolved key as it is
createCursorAsResolved(d, cs, ms, key) ==
  LET k == _resolveRefKey(d, IF Truthy(key) THEN key.s ELSE <<>>)
  IN IF k \in DOMAIN cs
     THEN [cursors |-> cs, made |-> ms, cursor |-> cs[k]]
     ELSE [cursors |-> [c \in (DOMAIN cs) \cup {k} |->
                          IF c = k THEN Len(ms) + 1 ELSE cs[c]],
           made |-> Append(ms, Cursor(k)),
           cursor |-> Len(ms) + 1]

\* DataStore.createCursor(key) on the registry cs and the cursors made ms:
\* the registry and the cursors made after the call, and the cursor returned.
createCursor(d, cs, ms, key) ==
  LET resolved == _resolveRefKey(d, IF Truthy(key) THEN key.s ELSE <<>>)
      k == IF resolved # <<>> /\ ~StartsWith(resolved, SEP)
           THEN <<SEP>> \o resolved ELSE resolved
  IN IF k \in DOMAIN cs
     THEN [cursors |-> cs, made |-> ms, cursor |-> cs[k]]
     ELSE [cursors |-> [c \in (DOMAIN cs) \cup {k} |->
                          IF c = k THEN Len(ms) + 1 ELSE cs[c]],
           made |-> Append(ms, Cursor(k)),
           cursor |-> Len(ms) + 1]

\* A destroy that leaves the handlers registered
destroyKeepingHandlers(hs, cs, ms) ==
  [made |-> [i \in 1..Len(ms) |->
               IF \E k \in DOMAIN cs : cs[k] = i
               THEN [ms[i] EXCEPT !.destroyed = TRUE] ELSE ms[i]],
   destroyed |-> TRUE, cursors |-> <<>>, data |-> EmptyObj, handlers |-> hs,
   serialisableKeys |-> <<>>]

\* DataStore.destroy(): destroy() is called on each cursor of the registry,
\* then the flag is set and the registries, the tree and the map are emptied.
destroy(hs, cs, ms) ==
  [made |-> [i \in 1..Len(ms) |->
               IF \E k \in DOMAIN cs : cs[k] = i
               THEN [ms[i] EXCEPT !.destroyed = TRUE] ELSE ms[i]],
   destroyed |-> TRUE, cursors |-> <<>>, data |-> EmptyObj, handlers |-> <<>>,
   serialisableKeys |-> <<>>]

\* ------------------------------------------------------------------------
\* JSON export (DataStore.js)
\* ------------------------------------------------------------------------

\* The map with the key stored as it was given, leading separator and all
setSerialisabilityAsGiven(config, key, value) ==
  [c \in (DOMAIN config) \cup {key} |-> IF c = key THEN value ELSE config[c]]

\* DataStore.setSerialisabilityOfKey(key, value) for a string key: the map
\* _serialisableKeys after the call.
setSerialisabilityOfKey(config, key, value) ==
  LET k == IF StartsWith(key, SEP) THEN Tail(key) ELSE key
  IN [c \in (DOMAIN config) \cup {k} |-> IF c = k THEN value ELSE config[c]]

\* serialise(key, data, config); the key null (or '') is the empty string.
RECURSIVE serialise(_, _, _)
serialise(key, data, config) ==
  LET isOff(k) == k \in DOMAIN config /\ config[k] = FALSE
      keyChain(prop) == IF key # <<>> THEN key \o <<SEP, prop>> ELSE <<prop>>
  IN IF isPlainObject(data)
     THEN Obj([prop \in {q \in DOMAIN data.kids : ~isOff(keyChain(q))} |->
                 IF isPlainObject(data.kids[prop])
                 THEN serialise(keyChain(prop), data.kids[prop], config)
                 ELSE data.kids[prop]])
     ELSE IF ~isOff(key) THEN data ELSE Null

\* DataStore.toJSON(key): key is a JavaScript value.
toJSON(d, config, key) ==
  IF Truthy(key) THEN serialise(key.s, get(d, key), config)
  ELSE serialise(<<>>, d, config)

\* The frames a call stack holds: a recursion deeper than this ends in the
\* runtime's RangeError.
MaxStack == 8

\* explode that keeps an array as it is
RECURSIVE explodeMappings(_, _, _)
explodeMappings(d, value, frames) ==
  IF frames = 0 THEN Err("RangeError")
  ELSE IF isPlainObject(value)
       THEN Obj([prop \in DOMAIN value.kids |->
                   explodeMappings(d, value.kids[prop], frames - 1)])
  ELSE IF _isRefValue(value)
       THEN explodeMappings(d, get(d, Str(_parseRefKey(value.s))), frames - 1)
  ELSE value

\* explode that reads the target of an alias as it is stored
RECURSIVE explodeStored(_, _, _)
explodeStored(d, value, frames) ==
  IF frames = 0 THEN Err("RangeError")
  ELSE IF isPlainObject(value)
       THEN Obj([prop \in DOMAIN value.kids |->
                   explodeStored(d, value.kids[prop], frames - 1)])
  ELSE IF value.t = "arr"
       THEN Arr([i \in 1..Len(value.kids) |->
                   explodeStored(d, value.kids[i], frames - 1)])
  ELSE IF _isRefValue(value)
       THEN explodeStored(d, propertyGet(d, _parseRefKey(value.s)), frames - 1)
  ELSE value

\* explode(store, data), with the frames the call stack has left
RECURSIVE explode(_, _, _)
explode(d, value, frames) ==
  IF frames = 0 THEN Err("RangeError")
  ELSE IF isPlainObject(value)
       THEN Obj([prop \in DOMAIN value.kids |->
                   explode(d, value.kids[prop], frames - 1)])
  ELSE IF value.t = "arr"
       THEN Arr([i \in 1..Len(value.kids) |->
                   explode(d, value.kids[i], frames - 1)])
  ELSE IF _isRefValue(value)
       THEN explode(d, get(d, Str(_parseRefKey(value.s))), frames - 1)
  ELSE value

\* DataStore.dump(false)
dump(d) == explode(d, d, MaxStack)

\* ------------------------------------------------------------------------
\* Freshness metadata (methods/fetch, the cache-control build)
\* ------------------------------------------------------------------------

\* store.EXPIRES_KEY
EXPIRES_KEY == <<"__expires">>

\* store.HEADERS_KEY and store.GRACE: FetchableDataStore defines neither, so
\* value[store.HEADERS_KEY] is the property "undefined" and store.GRACE is
\* undefined.
HEADERS_KEY == <<"undefined">>

GRACE == Undef

NaN == [t |-> "nan", s |-> <<>>, n |-> 0, kids |-> NoKids]

\* The directives RE_CACHE_CONTROL finds in a cache-control string: each
\* directive is one token of the string.
Directive ==
  [tk \in {"max-age=0", "max-age=1", "max-age=120"} |->
     [d |-> "max-age",
      v |-> CASE tk = "max-age=0" -> 0 [] tk = "max-age=1" -> 1 [] OTHER -> 120]]
  @@ [tk \in {"stale-while-revalidate=2", "stale-while-revalidate=150"} |->
     [d |-> "stale-while-revalidate",
      v |-> IF tk = "stale-while-revalidate=2" THEN 2 ELSE 150]]
  @@ [tk \in {"stale-if-error=2", "stale-if-error=180"} |->
     [d |-> "stale-if-error", v |-> IF tk = "stale-if-error=2" THEN 2 ELSE 180]]

CacheControl(maxAge, staleWhileRevalidate, staleIfError) ==
  Obj([maxAge |-> Num(maxAge),
       staleWhileRevalidate |-> Num(staleWhileRevalidate),
       staleIfError |-> Num(staleIfError)])

RECURSIVE execCacheControl(_, _, _, _)
\* The while loop of parseCacheControl over the matches of the string.
execCacheControl(tokens, maxAge, staleIfError, staleWhileRevalidate) ==
  IF tokens = <<>> THEN CacheControl(maxAge, staleWhileRevalidate, staleIfError)
  ELSE IF Head(tokens) \notin DOMAIN Directive
       THEN execCacheControl(Tail(tokens), maxAge, staleIfError, staleWhileRevalidate)
  ELSE LET m == Directive[Head(tokens)]
       IN IF m.d = "max-age"
          THEN execCacheControl(Tail(tokens), m.v, m.v, m.v)
          ELSE IF m.d = "stale-while-revalidate"
               THEN execCacheControl(Tail(tokens), maxAge, staleIfError,
                                     IF m.v > maxAge THEN m.v ELSE maxAge)
               ELSE execCacheControl(Tail(tokens), maxAge,
                                     IF m.v > maxAge THEN m.v ELSE maxAge,
                                     staleWhileRevalidate)

parseCacheControl(cacheControlString) ==
  IF Truthy(cacheControlString) /\ cacheControlString.t = "str"
  THEN execCacheControl(cacheControlString.s, 0, 0, 0)
  ELSE CacheControl(0, 0, 0)

\* x || y for numbers
OrElse(x, y) == IF Truthy(x) THEN x.n ELSE y

mergeCacheControl(cacheControl, defaultCacheControl) ==
  IF cacheControl.t = "undef" THEN defaultCacheControl
  ELSE LET maxAge ==
             IF HasProp(cacheControl, <<"maxAge">>)
             THEN Prop(cacheControl, <<"maxAge">>).n
             ELSE Prop(defaultCacheControl, <<"maxAge">>).n
           staleWhileRevalidate ==
             OrElse(Prop(cacheControl, <<"staleWhileRevalidate">>),
                    Prop(defaultCacheControl, <<"staleWhileRevalidate">>).n
                      - Prop(defaultCacheControl, <<"maxAge">>).n)
           staleIfError ==
             OrElse(Prop(cacheControl, <<"staleIfError">>),
                    Prop(defaultCacheControl, <<"staleIfError">>).n
                      - Prop(defaultCacheControl, <<"maxAge">>).n)
       IN CacheControl(maxAge, staleWhileRevalidate, staleIfError)

\* parseLoadHeaders(headers, defaultCacheControl) at time now; headers.expires
\* is a number of milliseconds.
parseLoadHeaders(headers, defaultCacheControl, now) ==
  LET expires == IF Truthy(Prop(headers, <<"expires">>))
                 THEN Prop(headers, <<"expires">>).n ELSE now
  IN Obj([cacheControl |->
            mergeCacheControl(parseCacheControl(Prop(headers, <<"cache-control">>)),
                              defaultCacheControl),
          expires |-> Num(IF now > expires
                          THEN now + Prop(defaultCacheControl, <<"maxAge">>).n * 1000
                          ELSE expires)])

\* Math.ceil(now / 1000) * 1000
CeilSecond(now) == ((now + 999) \div 1000) * 1000

\* hasExpired(headers, isError) of the cache-control build at time now. A
\* missing expires makes the sum NaN, and no number is greater than NaN.
hasExpiredA(headers, isError, now) ==
  IF ~Truthy(headers) \/ ~Truthy(Prop(headers, <<"cacheControl">>)) THEN TRUE
  ELSE LET cc == Prop(headers, <<"cacheControl">>)
           maxAge == Prop(cc, <<"maxAge">>).n
           staleIfError == Prop(cc, <<"staleIfError">>).n
           staleWhileRevalidate == Prop(cc, <<"staleWhileRevalidate">>).n
           expires == Prop(headers, <<"expires">>)
       IN IF expires.t # "num" THEN FALSE
          ELSE CeilSecond(now) >
                 expires.n + (staleWhileRevalidate - maxAge
                                + (IF isError THEN staleIfError - maxAge ELSE 0)) * 1000

\* value && value[name]
AndProp(value, name) == IF Truthy(value) THEN Prop(value, name) ELSE value

\* ------------------------------------------------------------------------
\* fetch (methods/fetch): three builds of it are in the source,
\*   A  the cache-control build (cacheControl, rejectOnError),
\*   B  the stale-flags build (staleWhileRevalidate, staleIfError, minExpiry)
\*      that rejects a call without key or url,
\*   C  the stale-flags build with fetchAll, that resolves such a call.
\* A call of fetch decides at once: a settled promise, or a load (a call of
\* the transport) that settles the promise later (attached) or not at all
\* (a background load).
\* ------------------------------------------------------------------------

Decision(state, body, error, load, attached, key, options, value) ==
  [state |-> state, body |-> body, error |-> error, load |-> load,
   attached |-> attached, key |-> key, options |-> options, value |-> value]

\* What settles a promise and what it leaves of the tree.
Settle(state, body, error, out) ==
  [state |-> state, body |-> body, error |-> error, data |-> out.data,
   invoked |-> out.invoked]

DEFAULT_LOAD_OPTIONS_A ==
  Obj([cacheControl |->
         Str(<<"public", "max-age=120", "stale-while-revalidate=150",
               "stale-if-error=180">>),
       rejectOnError |-> Bool(TRUE), retry |-> Num(2), timeout |-> Num(5000)])

doFetchA(d, key, url, options, now) ==
  LET value == get(d, key)
      isMissing == ~Truthy(value)
      isExpired == hasExpiredA(AndProp(value, HEADERS_KEY), FALSE, now)
  IN IF isMissing \/ isExpired
     THEN IF ~Truthy(url)
          THEN Decision("resolved", value, Undef, FALSE, FALSE, key, options, value)
          ELSE Decision("pending", Undef, Undef, TRUE, TRUE, key, options, value)
     ELSE Decision("resolved", value, Undef, FALSE, FALSE, key, options, value)

fetchA(d, key, url, options0, now) ==
  LET o1 == assignOptions(DEFAULT_LOAD_OPTIONS_A, options0)
      options == WithProp(o1, <<"cacheControl">>,
                          parseCacheControl(Prop(o1, <<"cacheControl">>)))
  IN IF ~Truthy(key)
     THEN Decision("resolved", Undef, Undef, FALSE, FALSE, key, options, Undef)
     ELSE doFetchA(d, key, url, options, now)

\* The catch of doFetch: err is the transport's error, or the TypeError of
\* the then before it.
catchA(ld, err, out, now) ==
  LET isExpired == hasExpiredA(AndProp(ld.value, HEADERS_KEY), TRUE, now)
  IN IF Truthy(Prop(ld.options, <<"rejectOnError">>)) /\ isExpired
     THEN Settle("rejected", Undef, err, out)
     ELSE Settle("resolved", IF isExpired THEN Undef ELSE ld.value, err, out)

\* The transport resolved with res = [body, headers]: the then of load, and
\* the then of doFetch, where body[store.HEADERS_KEY] of an undefined body
\* is a TypeError that its catch receives.
loadedA(d, hs, writable, ld, res, now) ==
  LET data1 == IF Truthy(res.headers) /\ HasProp(res.headers, <<"expires">>)
               THEN WithProp(res.body, HEADERS_KEY,
                             parseLoadHeaders(res.headers,
                                              Prop(ld.options, <<"cacheControl">>), now))
               ELSE res.body
      out == IF Truthy(res.body)
             THEN DataStore_set(d, hs, writable, ld.key, data1, ld.options)
             ELSE Outcome(d, <<>>, FALSE, FALSE)
      body == get(out.data, ld.key)
  IN IF body.t = "undef" THEN catchA(ld, Err("TypeError"), out, now)
     ELSE Settle("resolved", body, Undef, out)

\* The transport failed with err after its retries: the catch of load, then
\* the catch of doFetch.
failedA(d, hs, writable, ld, err, now) ==
  LET out == IF Truthy(Prop(ld.options, <<"rejectOnError">>))
             THEN DataStore_set(d, hs, writable, ld.key, Undef, ld.options)
             ELSE Outcome(d, <<>>, FALSE, FALSE)
  IN catchA(ld, err, out, now)

DEFAULT_LOAD_OPTIONS_B ==
  Obj([minExpiry |-> Num(120000), retry |-> Num(2), timeout |-> Num(5000)])

DEFAULT_LOAD_OPTIONS_C ==
  Obj([minExpiry |-> Num(60000), retry |-> Num(2), timeout |-> Num(5000)])

\* hasExpired(obj, expiresKey) of the stale-flags builds at time now
hasExpiredB(obj, expiresKey, now) ==
  /\ Truthy(obj)
  /\ isPlainObject(obj)
  /\ HasProp(obj, expiresKey)
  /\ Prop(obj, expiresKey).t = "num"
  /\ now > Prop(obj, expiresKey).n

\* getExpires / getExpiry(dateString, minExpiry, grace) at time now: a grace
\* that is no number makes expires NaN, which is not greater than now.
getExpires(dateString, minExpiry, grace, now) ==
  LET expires == IF grace.t = "num" THEN Num(dateString + grace.n) ELSE NaN
  IN IF expires.t = "num" /\ expires.n > now THEN expires.n ELSE now + minExpiry

doFetchB(d, key, url, options, now) ==
  LET value == get(d, key)
      isExpired == hasExpiredB(value, EXPIRES_KEY, now)
      isMissing == ~Truthy(value)
      attached == ~(Truthy(value) /\ Truthy(Prop(options, <<"staleWhileRevalidate">>)))
  IN IF isMissing \/ isExpired
     THEN IF ~Truthy(url)
          THEN Decision("rejected", Undef, Err("missing fetch url"), FALSE, FALSE,
                        key, options, value)
          ELSE IF attached
               THEN Decision("pending", Undef, Undef, TRUE, TRUE, key, options, value)
               ELSE Decision("resolved", value, Undef, TRUE, FALSE, key, options, value)
     ELSE Decision("resolved", value, Undef, FALSE, FALSE, key, options, value)

fetchB(d, key, url, options0, now) ==
  IF ~Truthy(key)
  THEN Decision("rejected", Undef, Err("missing fetch key"), FALSE, FALSE,
                key, options0, Undef)
  ELSE doFetchB(d, key, url, assignOptions(DEFAULT_LOAD_OPTIONS_B, options0), now)

doFetchC(d, key, url, options, now) ==
  LET value == get(d, key)
      isMissingOrExpired == ~Truthy(value) \/ hasExpiredB(value, EXPIRES_KEY, now)
      attached == ~(Truthy(value) /\ Truthy(Prop(options, <<"staleWhileRevalidate">>)))
  IN IF isMissingOrExpired
     THEN IF ~Truthy(url)
          THEN Decision("resolved", value, Undef, FALSE, FALSE, key, options, value)
          ELSE IF attached
               THEN Decision("pending", Undef, Undef, TRUE, TRUE, key, options, value)
               ELSE Decision("resolved", value, Undef, TRUE, FALSE, key, options, value)
     ELSE Decision("resolved", value, Undef, FALSE, FALSE, key, options, value)

fetchC(d, key, url, options0, now) ==
  IF ~Truthy(key)
  THEN Decision("resolved", Undef, Undef, FALSE, FALSE, key, options0, Undef)
  ELSE doFetchC(d, key, url, assignOptions(DEFAULT_LOAD_OPTIONS_C, options0), now)

\* The transport resolved with res (builds B and C): the then of load, and
\* the then of doFetch.
loadedB(d, hs, writable, ld, res, now) ==
  LET data1 == IF Truthy(res.headers) /\ HasProp(res.headers, <<"expires">>)
               THEN WithProp(res.body, EXPIRES_KEY,
                             Num(getExpires(Prop(res.headers, <<"expires">>).n,
                                            Prop(ld.options, <<"minExpiry">>).n,
                                            GRACE, now)))
               ELSE res.body
      out == IF Truthy(res.body)
             THEN DataStore_set(d, hs, writable, ld.key, data1, ld.options)
             ELSE Outcome(d, <<>>, FALSE, FALSE)
  IN Settle("resolved", get(out.data, ld.key), Undef, out)

\* The transport failed with err (builds B and C): the catch of load, then
\* the catch of doFetch.
failedB(d, hs, writable, ld, err, now) ==
  LET staleIfError == Truthy(Prop(ld.options, <<"staleIfError">>))
      out == IF ~staleIfError
             THEN DataStore_set(d, hs, writable, ld.key, Undef, ld.options)
             ELSE Outcome(d, <<>>, FALSE, FALSE)
  IN IF ~staleIfError THEN Settle("rejected", Undef, err, out)
     ELSE Settle("resolved", ld.value, err, out)

\* The build of methods/fetch in use
fetchImpl(build, d, key, url, options, now) ==
  CASE build = "A" -> fetchA(d, key, url, options, now)
    [] build = "B" -> fetchB(d, key, url, options, now)
    [] OTHER -> fetchC(d, key, url, options, now)

loaded(build, d, hs, writable, ld, res, now) ==
  IF build = "A" THEN loadedA(d, hs, writable, ld, res, now)
  ELSE loadedB(d, hs, writable, ld, res, now)

failed(build, d, hs, writable, ld, err, now) ==
  IF build = "A" THEN failedA(d, hs, writable, ld, err, now)
  ELSE failedB(d, hs, writable, ld, err, now)

\* ------------------------------------------------------------------------
\* FetchableDataStore
\* ------------------------------------------------------------------------

DEFAULT_LOAD_OPTIONS ==
  Obj([minExpiry |-> Num(60000), retry |-> Num(2), timeout |-> Num(5000)])

\* this._handledMethods.fetch(key, url, options): the decision of the fetch
\* the call is routed to.
handledFetch(build, d, hs, key, url, options, now) ==
  LET r == _routeHandledMethod(hs, "fetch", <<key, url, options>>)
  IN fetchImpl(build, d, r.args[1], r.args[2], r.args[3], now)

\* FetchableDataStore.fetch(key, url, options) for a string key: the
\* decision of the routed fetch, or no promise at all without a key.
FetchableDataStore_fetch(build, d, hs, key, url, options0, now) ==
  IF ~Truthy(key)
  THEN Decision("none", Undef, Undef, FALSE, FALSE, key, options0, Undef)
  ELSE handledFetch(build, d, hs, key, url,
                    assignOptions(DEFAULT_LOAD_OPTIONS, options0), now)

\* ------------------------------------------------------------------------
\* Inputs
\* ------------------------------------------------------------------------

MaxHandlers == 3

MaxFetches == 2

MaxTicks == 4

\* The clock at construction and the step of the clock, in milliseconds
StartTime == 1000

TickMs == 1000

V1 == Str(<<"v1">>)

V2 == Str(<<"v2">>)

O1 == Obj([b |-> V1])

O2 == Obj([b |-> V2])

\* Keys given to set and update: "", "a", "/a", "b", "a/b"
Keys == {<<>>, <<"a">>, <<SEP, "a">>, <<"b">>, <<"a", SEP, "b">>}

\* Keys a reference is taken of
RefKeys == {<<"b">>}

Values == {V1, V2, O1}

OptionsSet == {Undef, Obj([merge |-> Bool(FALSE)]), Obj([immutable |-> Bool(TRUE)])}

HandlerFns == {"h1", "h2"}

Matchers == {NoMatch, [kind |-> "str", s |-> <<"a">>], [kind |-> "re", s |-> <<"b">>]}

\* The data a store is constructed or reset with
ResetData == {EmptyObj, Obj([a |-> O1])}

URL == Str(<<"url1">>)

\* The options given to fetch, per build
FetchOptions(b) ==
  IF b = "A"
  THEN {Undef, Obj([rejectOnError |-> Bool(FALSE)])}
  ELSE {Obj([minExpiry |-> Num(1000)]),
        Obj([minExpiry |-> Num(1000), staleWhileRevalidate |-> Bool(TRUE)]),
        Obj([minExpiry |-> Num(1000), staleIfError |-> Bool(TRUE)])}

\* The responses of the transport at time t: [body, headers]
Responses(t) ==
  {[body |-> b, headers |-> hd] :
     b \in {O2, Undef},
     hd \in {Undef,
            Obj([h \in {"expires", "cache-control"} |->
                   IF h = "expires" THEN Num(t + 1000)
                   ELSE Str(<<"max-age=1", "stale-while-revalidate=2",
                              "stale-if-error=2">>)])}}

TransportError == Err("transport")

\* ------------------------------------------------------------------------
\* State
\* ------------------------------------------------------------------------

VARIABLES
  data,        \* store._data
  handlers,    \* store._handlers: sequence of [handler, match]
  isWritable,  \* store.isWritable
  build,       \* the build of methods/fetch in use
  now,         \* Date.now()
  fetches,     \* the calls of fetch made, with their load and their promise
  last,        \* the latest call on the store and what it left
  serialisableKeys, \* store._serialisableKeys: key -> boolean
  cursors,     \* store._cursors: prefix -> the cursor registered for it
  made,        \* every cursor created so far, by identity
  destroyed,   \* store.destroyed
  fetchedKeys  \* store._fetchedKeys

vars ==
  <<data, handlers, isWritable, build, now, fetches, last,
    serialisableKeys, cursors, made, destroyed, fetchedKeys>>

NoCall ==
  [op |-> "none", key |-> Undef, value |-> Undef,
   invoked |-> <<>>, executed |-> FALSE, threw |-> FALSE]

Call(op, key, value, out) ==
  [op |-> op, key |-> key, value |-> value,
   invoked |-> out.invoked, executed |-> out.executed, threw |-> out.threw]

Noted(op) == [NoCall EXCEPT !.op = op]

\* new DataStore(id, d, {isWritable, handlers}): use(options.handlers), then
\* this.reset(data || {}) on the empty tree.
Constructed(hs, d) == DataStore_reset(EmptyObj, hs, d).data

\* ------------------------------------------------------------------------
\* Store actions
\* ------------------------------------------------------------------------

Use(match, handler) ==
  /\ Len(handlers) < MaxHandlers
  /\ handlers' = use(handlers, match, handler)
  /\ last' = Noted("use")
  /\ UNCHANGED <<data, isWritable, build, now, fetches>>
  /\ UNCHANGED <<serialisableKeys, cursors, made, destroyed, fetchedKeys>>

Unuse(handler) ==
  /\ handlers' = unuse(handlers, NoMatch, handler)
  /\ last' = Noted("unuse")
  /\ UNCHANGED <<data, isWritable, build, now, fetches>>
  /\ UNCHANGED <<serialisableKeys, cursors, made, destroyed, fetchedKeys>>

UnuseBatch(matches) ==
  /\ handlers' = unuseBatch(handlers, matches)
  /\ last' = Noted("unuse")
  /\ UNCHANGED <<data, isWritable, build, now, fetches>>
  /\ UNCHANGED <<serialisableKeys, cursors, made, destroyed, fetchedKeys>>

Set(key, value, options) ==
  LET out == DataStore_set(data, handlers, isWritable, key, value, options)
  IN /\ data' = out.data
     /\ last' = Call("set", key, value, out)
     /\ UNCHANGED <<handlers, isWritable, build, now, fetches>>
     /\ UNCHANGED <<serialisableKeys, cursors, made, destroyed, fetchedKeys>>

\* store.set(key, value, options) on a store whose handlers may call use and
\* unuse
SetLive(key, value, options) ==
  LET r == setLive(data, handlers, isWritable, key, value, options)
  IN /\ Len(r.handlers) <= MaxHandlers
     /\ data' = r.out.data
     /\ handlers' = r.handlers
     /\ last' = Call("set", key, value, r.out)
     /\ UNCHANGED <<isWritable, build, now, fetches>>
     /\ UNCHANGED <<serialisableKeys, cursors, made, destroyed, fetchedKeys>>

Update(key, value, options) ==
  LET out == DataStore_update(data, handlers, isWritable, key, value, options)
  IN /\ data' = out.data
     /\ last' = Call("update", key, value, out)
     /\ UNCHANGED <<handlers, isWritable, build, now, fetches>>
     /\ UNCHANGED <<serialisableKeys, cursors, made, destroyed, fetchedKeys>>

Reset(newData) ==
  LET out == DataStore_reset(data, handlers, newData)
  IN /\ data' = out.data
     /\ last' = Call("reset", newData, Undef, out)
     /\ UNCHANGED <<handlers, isWritable, build, now, fetches>>
     /\ UNCHANGED <<serialisableKeys, cursors, made, destroyed, fetchedKeys>>

\* store.setSerialisabilityOfKey(key, value)
SetSerialisabilityOfKey(key, value) ==
  /\ serialisableKeys' = setSerialisabilityOfKey(serialisableKeys, key, value)
  /\ last' = [Noted("setSerialisabilityOfKey") EXCEPT
               !.key = Str(key), !.value = Bool(value)]
  /\ UNCHANGED <<data, handlers, isWritable, build, now, fetches>>
  /\ UNCHANGED <<cursors, made, destroyed, fetchedKeys>>

\* store.toJSON(key), as JSON.stringify(store) calls it: last.value is what
\* it returned.
ToJSON(key) ==
  /\ last' = [Noted("toJSON") EXCEPT
               !.key = key, !.value = toJSON(data, serialisableKeys, key)]
  /\ UNCHANGED <<data, handlers, isWritable, build, now, fetches>>
  /\ UNCHANGED <<serialisableKeys, cursors, made, destroyed, fetchedKeys>>

\* store.dump(): last.value is what it returned.
Dump ==
  /\ last' = [Noted("dump") EXCEPT !.value = dump(data)]
  /\ UNCHANGED <<data, handlers, isWritable, build, now, fetches>>
  /\ UNCHANGED <<serialisableKeys, cursors, made, destroyed, fetchedKeys>>

\* store.get(key) of a string key: last.value is what it returned.
Get(key) ==
  /\ last' = [Noted("get") EXCEPT !.key = key, !.value = get(data, key)]
  /\ UNCHANGED <<data, handlers, isWritable, build, now, fetches>>
  /\ UNCHANGED <<serialisableKeys, cursors, made, destroyed, fetchedKeys>>

\* ------------------------------------------------------------------------
\* Fetch actions
\* ------------------------------------------------------------------------

\* One call of fetch: what the caller gave (key, url, opts) and found stored
\* (value0) at time t0, the load it started (ld: the key, options and value
\* the implementation holds; load: none, inflight, ok, failed; attached: the
\* load settles the promise), the promise (state, body, error), and, once
\* the load is over, its time (t1), the body the transport gave (fetched) and
\* the value then stored at the caller's key (stored).
FetchRecord(key, url, opts, value0, t0, batch, dec) ==
  [key |-> key, url |-> url, opts |-> opts, value0 |-> value0, t0 |-> t0,
   batch |-> batch,
   ld |-> [key |-> dec.key, options |-> dec.options, value |-> dec.value],
   load |-> IF dec.load THEN "inflight" ELSE "none",
   attached |-> dec.attached,
   state |-> dec.state, body |-> dec.body, error |-> dec.error,
   t1 |-> 0, fetched |-> Undef, stored |-> Undef]

\* store.fetch(key, url, opts)
Fetch(key, url, opts) ==
  /\ Len(fetches) < MaxFetches
  /\ LET dec == FetchableDataStore_fetch(build, data, handlers, key, url, opts, now)
     IN fetches' = Append(fetches,
                          FetchRecord(key, url, opts, get(data, key), now, FALSE, dec))
  /\ fetchedKeys' = IF key.t = "str" /\ Truthy(key)
                    THEN fetchedKeys \cup {key.s} ELSE fetchedKeys
  /\ UNCHANGED <<data, handlers, isWritable, build, now, last>>
  /\ UNCHANGED <<serialisableKeys, cursors, made, destroyed>>

\* store.fetch({[key]: url}, undefined, opts), the hash form with one pair:
\* the key is tracked and the pair is given to the routed fetch; Promise.all
\* over the one promise settles as that promise does.
FetchHash(key, url, opts) ==
  /\ Len(fetches) < MaxFetches
  /\ LET dec == handledFetch(build, data, handlers, key, url,
                             assignOptions(DEFAULT_LOAD_OPTIONS, opts), now)
     IN fetches' = Append(fetches,
                          FetchRecord(key, url, opts, get(data, key), now, FALSE, dec))
  /\ fetchedKeys' = fetchedKeys \cup {key.s}
  /\ UNCHANGED <<data, handlers, isWritable, build, now, last>>
  /\ UNCHANGED <<serialisableKeys, cursors, made, destroyed>>

\* fetchAll(store, [[k1, URL], [k2, URL]], opts): each entry is given to
\* fetch with the options assign({}, opts, undefined).
FetchAll(k1, k2, opts) ==
  /\ build = "C"
  /\ fetches = <<>>
  /\ MaxFetches >= 2
  /\ LET o == assignOptions(EmptyObj, opts)
         rec(k) == FetchRecord(k, URL, o, get(data, k), now, TRUE,
                               fetchC(data, k, URL, o, now))
     IN fetches' = <<rec(k1), rec(k2)>>
  /\ UNCHANGED <<data, handlers, isWritable, build, now, last>>
  /\ UNCHANGED <<serialisableKeys, cursors, made, destroyed, fetchedKeys>>

\* What the end of the load of a fetch makes of its record
Settled(f, how, res, s) ==
  LET g == [f EXCEPT !.load = how, !.t1 = now, !.fetched = res.body,
                     !.stored = get(s.data, f.key)]
  IN IF f.attached
     THEN [g EXCEPT !.state = s.state, !.body = s.body, !.error = s.error]
     ELSE g

\* The transport resolves the load of fetch i with res.
Loaded(i, res) ==
  /\ fetches[i].load = "inflight"
  /\ LET s == loaded(build, data, handlers, isWritable, fetches[i].ld, res, now)
     IN /\ data' = s.data
        /\ fetches' = [fetches EXCEPT ![i] = Settled(@, "ok", res, s)]
  /\ UNCHANGED <<handlers, isWritable, build, now, last>>
  /\ UNCHANGED <<serialisableKeys, cursors, made, destroyed, fetchedKeys>>

\* The transport fails the load of fetch i, its retries exhausted.
Failed(i) ==
  /\ fetches[i].load = "inflight"
  /\ LET s == failed(build, data, handlers, isWritable, fetches[i].ld,
                     TransportError, now)
     IN /\ data' = s.data
        /\ fetches' = [fetches EXCEPT
                         ![i] = Settled(@, "failed", [body |-> Undef, headers |-> Undef], s)]
  /\ UNCHANGED <<handlers, isWritable, build, now, last>>
  /\ UNCHANGED <<serialisableKeys, cursors, made, destroyed, fetchedKeys>>

Tick ==
  /\ now < StartTime + MaxTicks * TickMs
  /\ now' = now + TickMs
  /\ UNCHANGED <<data, handlers, isWritable, build, fetches, last>>
  /\ UNCHANGED <<serialisableKeys, cursors, made, destroyed, fetchedKeys>>

\* Promise.all over the promises of fetchAll: rejected as soon as one of them
\* is, resolved once all of them are.
PromiseAll(promises) ==
  IF \E i \in 1..Len(promises) : promises[i].state = "rejected" THEN "rejected"
  ELSE IF \A i \in 1..Len(promises) : promises[i].state = "resolved" THEN "resolved"
  ELSE "pending"

\* ------------------------------------------------------------------------
\* Cursor, abort and destroy actions
\* ------------------------------------------------------------------------

\* The cursors a store hands out over its life
MaxCursors == 3

\* store.createCursor(key): last.value is the cursor returned.
CreateCursor(key) ==
  /\ Len(made) < MaxCursors
  /\ LET r == createCursor(data, cursors, made, key)
     IN /\ cursors' = r.cursors
        /\ made' = r.made
        /\ last' = [Noted("createCursor") EXCEPT !.key = key, !.value = Num(r.cursor)]
  /\ UNCHANGED <<data, handlers, isWritable, build, now, fetches>>
  /\ UNCHANGED <<serialisableKeys, destroyed, fetchedKeys>>

\* FetchableDataStore.abort(key) on the tracked keys fk and the fetches fs:
\* agent.abortAll is called in the browser only; clock.cancel finds no timer,
\* as methods/fetch sets none.
abort(fk, fs, key) ==
  LET hit(f) == /\ isBrowser
                /\ f.load = "inflight"
                /\ f.ld.key.t = "str"
                /\ IF Truthy(key) THEN f.ld.key = key ELSE f.ld.key.s \in fk
  IN [fetchedKeys |-> IF Truthy(key) THEN fk \ {key.s} ELSE {},
      fetches |-> [i \in 1..Len(fs) |->
                     IF hit(fs[i]) THEN [fs[i] EXCEPT !.load = "aborted"]
                     ELSE fs[i]]]

\* store.abort(key)
Abort(key) ==
  /\ LET r == abort(fetchedKeys, fetches, key)
     IN /\ fetchedKeys' = r.fetchedKeys
        /\ fetches' = r.fetches
  /\ last' = [Noted("abort") EXCEPT !.key = key]
  /\ UNCHANGED <<data, handlers, isWritable, build, now>>
  /\ UNCHANGED <<serialisableKeys, cursors, made, destroyed>>

\* A destroy of the fetchable store that does not call abort
destroyOnly(fk, fs, hs, cs, ms) ==
  [aborted |-> [fetchedKeys |-> fk, fetches |-> fs], store |-> destroy(hs, cs, ms)]

\* FetchableDataStore.destroy(): this.abort(), then DataStore.destroy
FetchableDataStore_destroy(fk, fs, hs, cs, ms) ==
  [aborted |-> abort(fk, fs, Undef), store |-> destroy(hs, cs, ms)]

\* store.destroy()
Destroy ==
  /\ LET r == FetchableDataStore_destroy(fetchedKeys, fetches, handlers,
                                         cursors, made)
     IN /\ fetchedKeys' = r.aborted.fetchedKeys
        /\ fetches' = r.aborted.fetches
        /\ made' = r.store.made
        /\ destroyed' = r.store.destroyed
        /\ cursors' = r.store.cursors
        /\ data' = r.store.data
        /\ handlers' = r.store.handlers
        /\ serialisableKeys' = r.store.serialisableKeys
  /\ last' = Noted("destroy")
  /\ UNCHANGED <<isWritable, build, now>>

\* ------------------------------------------------------------------------
\* Specifications
\* ------------------------------------------------------------------------

\* this._cursors = {}, this._serialisableKeys = {}, this.destroyed = false
\* and, in a fetchable store, this._fetchedKeys = {}
NewStore ==
  /\ serialisableKeys = <<>>
  /\ cursors = <<>>
  /\ made = <<>>
  /\ destroyed = FALSE
  /\ fetchedKeys = {}

NoFetching ==
  /\ build = "A"
  /\ now = StartTime
  /\ fetches = <<>>
  /\ last = NoCall
  /\ NewStore

\* The store and its aliases, with and without an observing handler
Init ==
  /\ isWritable \in BOOLEAN
  /\ handlers \in {<<>>, use(<<>>, NoMatch, "h1")}
  /\ \E d \in ResetData : data = Constructed(handlers, d)
  /\ NoFetching

Next ==
  \/ Use(NoMatch, "h1")
  \/ Unuse("h1")
  \/ \E k \in Keys, v \in Values \cup {reference(data, r) : r \in RefKeys},
        o \in OptionsSet : Set(Str(k), v, o)
  \/ \E k \in {<<>>, <<"a">>}, v \in {V2, O1} : Update(Str(k), v, Undef)
  \/ \E d \in ResetData : Reset(d)

Spec == Init /\ [][Next]_vars

\* The handler pipeline: every registry of up to MaxHandlers handlers
InitPipeline ==
  /\ isWritable = TRUE
  /\ handlers = <<>>
  /\ data = Constructed(handlers, EmptyObj)
  /\ NoFetching

NextPipeline ==
  \/ \E m \in Matchers, h \in HandlerFns : Use(m, h)
  \/ \E h \in HandlerFns : Unuse(h)
  \/ \E m \in Matchers : UnuseBatch(<<<<m, "h1">>, <<NoMatch, "h2">>>>)
  \/ \E k \in Keys : Set(Str(k), V1, Undef)
  \/ Reset(EmptyObj)

SpecPipeline == InitPipeline /\ [][NextPipeline]_vars

\* The fetch-capable store, writable
InitFetch ==
  /\ isWritable = TRUE
  /\ handlers = <<>>
  /\ \E d \in ResetData : data = Constructed(handlers, d)
  /\ build \in {"A", "B", "C"}
  /\ now = StartTime
  /\ fetches = <<>>
  /\ last = NoCall
  /\ NewStore

NextFetch ==
  \/ \E o \in FetchOptions(build) : Fetch(Str(<<"a">>), URL, o)
  \/ Fetch(Str(<<"a">>), Undef, Undef)
  \/ \E o \in FetchOptions("C") : FetchAll(Str(<<"a">>), Str(<<"b">>), o)
  \/ \E i \in 1..Len(fetches), res \in Responses(now) : Loaded(i, res)
  \/ \E i \in 1..Len(fetches) : Failed(i)
  \/ Tick
  \/ Len(handlers) < 1 /\ Use(NoMatch, "h1")

SpecFetch == InitFetch /\ [][NextFetch]_vars

\* Export: the serialisability map, toJSON and dump over a tree three levels
\* deep that holds an alias
ExportData ==
  Obj([a |-> Obj([b |-> Obj([c |-> V1]), c |-> V2]),
       b |-> V1,
       c |-> Str(<<REF_KEY, "a", SEP, "b">>)])

ExportKeys ==
  {<<"a">>, <<"a", SEP, "b">>, <<"a", SEP, "b", SEP, "c">>, <<"b">>}

\* An alias of an alias, and aliases that are elements of a sequence
ChainData ==
  Obj([a |-> Obj([b |-> V1]),
       b |-> Str(<<REF_KEY, "a">>),
       c |-> Arr(<<Str(<<REF_KEY, "b">>), V2, Str(<<REF_KEY, "a", SEP, "b">>)>>)])

\* Aliases in a cycle: b and c are aliases of each other
CycleData ==
  Obj([a |-> O1, b |-> Str(<<REF_KEY, "c">>), c |-> Str(<<REF_KEY, "b">>)])

InitExport ==
  /\ isWritable = TRUE
  /\ handlers = <<>>
  /\ \E d \in {EmptyObj, ExportData} : data = Constructed(handlers, d)
  /\ NoFetching

NextExport ==
  \/ \E k \in ExportKeys, v \in BOOLEAN :
       \/ SetSerialisabilityOfKey(k, v)
       \/ SetSerialisabilityOfKey(<<SEP>> \o k, v)
  \/ ToJSON(Undef)
  \/ Dump
  \/ \E k \in {<<"a">>, <<"b">>, <<"c">>} : Get(Str(k))
  \/ \E k \in {<<"a">>, <<"a", SEP, "c">>} : Set(Str(k), O1, Undef)
  \/ Set(Str(<<"a">>), Str(<<REF_KEY, "a">>), Undef)
  \/ \E d \in {ExportData, ChainData, CycleData} : Reset(d)

SpecExport == InitExport /\ [][NextExport]_vars

\* Expiry: loads answered with an expires header in the past, at the time of
\* the load and after it, on a clock that is read between two full seconds
\* as well as on one
SubSecond == 500

ExpiryResponses(t) ==
  {[body |-> O2,
    headers |-> Obj([h \in {"expires", "cache-control"} |->
                       IF h = "expires" THEN Num(e) ELSE Str(<<cc>>)])] :
     e \in {t - 1000, t + 200, t + 1000},
     cc \in {"max-age=1", "no-cache"}}

InitExpiry ==
  /\ isWritable = TRUE
  /\ handlers = <<>>
  /\ data = Constructed(handlers, EmptyObj)
  /\ build \in {"A", "B", "C"}
  /\ now \in {StartTime, StartTime + SubSecond}
  /\ fetches = <<>>
  /\ last = NoCall
  /\ NewStore

NextExpiry ==
  \/ Fetch(Str(<<"a">>), URL, Undef)
  \/ \E i \in 1..Len(fetches), res \in ExpiryResponses(now) : Loaded(i, res)
  \/ Tick
  \/ Len(handlers) < 1 /\ Use(NoMatch, "h1")

SpecExpiry == InitExpiry /\ [][NextExpiry]_vars

\* Prefixes: cursors made for the omitted and the empty key, for a key with
\* and without its leading separator, for an alias key and for an
\* alias-encoded string
PrefixKeys ==
  {Undef, Str(<<>>), Str(<<"a">>), Str(<<SEP, "a">>), Str(<<"b">>),
   Str(<<REF_KEY, "b">>), Str(<<"c">>)}

InitPrefix ==
  /\ isWritable = TRUE
  /\ handlers = <<>>
  /\ data = Constructed(handlers, Obj([a |-> O1, b |-> Str(<<REF_KEY, "a">>)]))
  /\ NoFetching

NextPrefix ==
  \/ \E k \in PrefixKeys : CreateCursor(k)
  \/ Set(Str(<<"c">>), reference(data, <<"a">>), Undef)
  \/ Destroy

SpecPrefix == InitPrefix /\ [][NextPrefix]_vars

\* Handlers that batch a key into a set and that offer it options
ContextHandlers == {"h1", "batchB", "mergeO"}

BatchValues == {V1, Obj([c |-> V2])}

BatchOptions == {Undef, Obj([merge |-> Bool(TRUE)])}

InitBatch ==
  /\ isWritable = TRUE
  /\ handlers = <<>>
  /\ data = Constructed(handlers, Obj([a |-> O1]))
  /\ NoFetching

NextBatch ==
  \/ \E h \in ContextHandlers : Use(NoMatch, h)
  \/ \E h \in ContextHandlers : Unuse(h)
  \/ \E k \in {<<"a">>, <<"c">>}, v \in BatchValues, o \in BatchOptions :
       Set(Str(k), v, o)

SpecBatch == InitBatch /\ [][NextBatch]_vars

\* Handlers that change the registry while a set is dispatched to them
RegistryHandlers == {"h1", "dropSelf", "addH2"}

InitReentrant ==
  /\ isWritable = TRUE
  /\ handlers = <<>>
  /\ data = Constructed(handlers, EmptyObj)
  /\ NoFetching

NextReentrant ==
  \/ \E m \in Matchers, h \in RegistryHandlers : Use(m, h)
  \/ \E h \in RegistryHandlers : Unuse(h)
  \/ \E k \in {<<"a">>, <<"b">>} : SetLive(Str(k), V1, Undef)

SpecReentrant == InitReentrant /\ [][NextReentrant]_vars

\* Aliases: keys are made aliases of other keys, of aliases and of their
\* own descendants, and values are set through them, on a store without
\* handlers
AliasKeys ==
  {<<"a">>, <<"b">>, <<"c">>, <<"a", SEP, "b">>, <<SEP, "a", SEP, "b">>,
   <<REF_KEY, "b">>}

AliasTargets == {<<"a">>, <<"b">>, <<"c">>, <<"a", SEP, "b">>}

InitAlias ==
  /\ isWritable = TRUE
  /\ handlers = <<>>
  /\ data = Constructed(handlers, Obj([a |-> O1]))
  /\ NoFetching

\* The longest alias-encoded string stored, in tokens
MaxRefLen == 4

NextAlias ==
  \/ \E k \in AliasKeys, t \in AliasTargets :
       /\ Len(reference(data, t).s) <= MaxRefLen
       /\ Set(Str(k), reference(data, t), Undef)
  \/ \E k \in AliasKeys : Set(Str(k), V2, Undef)

SpecAlias == InitAlias /\ [][NextAlias]_vars

\* Cursors and destroy: cursors made for keys, aliases and aliases of
\* aliases, on a store that is then destroyed
CursorKeys == {<<>>, <<"a">>, <<SEP, "a">>, <<"b">>, <<"c">>}

InitCursor ==
  /\ isWritable = TRUE
  /\ handlers = <<>>
  /\ data = Constructed(handlers, Obj([a |-> O1]))
  /\ NoFetching

NextCursor ==
  \/ \E k \in CursorKeys : CreateCursor(IF k = <<>> THEN Undef ELSE Str(k))
  \/ Set(Str(<<"b">>), reference(data, <<"a">>), Undef)
  \/ Set(Str(<<"c">>), reference(data, <<"b">>), Undef)
  \/ Set(Str(<<"a">>), V2, Undef)
  \/ Len(handlers) < 1 /\ Use(NoMatch, "h1")
  \/ SetSerialisabilityOfKey(<<"a">>, FALSE)
  \/ Destroy

SpecCursor == InitCursor /\ [][NextCursor]_vars

\* Abort and destroy of a fetchable store with loads in flight
InitLifecycle ==
  /\ isWritable = TRUE
  /\ handlers = <<>>
  /\ data = Constructed(handlers, EmptyObj)
  /\ build \in {"A", "B", "C"}
  /\ now = StartTime
  /\ fetches = <<>>
  /\ last = NoCall
  /\ NewStore

NextLifecycle ==
  \/ \E k \in {<<"a">>, <<"b">>} : Fetch(Str(k), URL, Undef)
  \/ \E i \in 1..Len(fetches), res \in {r \in Responses(now) : Truthy(r.body)} :
       Loaded(i, res)
  \/ \E i \in 1..Len(fetches) : Failed(i)
  \/ \E k \in {<<"a">>, <<"b">>} : Abort(Str(k))
  \/ Abort(Undef)
  \/ Destroy

SpecLifecycle == InitLifecycle /\ [][NextLifecycle]_vars

\* Misuse: calls of fetch and set without a key, with and without a handler
InitMisuse ==
  /\ isWritable = TRUE
  /\ handlers \in {<<>>, use(<<>>, NoMatch, "h1")}
  /\ \E d \in ResetData : data = Constructed(handlers, d)
  /\ build \in {"A", "B", "C"}
  /\ now = StartTime
  /\ fetches = <<>>
  /\ last = NoCall
  /\ NewStore

NextMisuse ==
  \/ \E k \in {Undef, Str(<<>>)} : Fetch(k, URL, Undef)
  \/ \E u \in {URL, Undef} : FetchHash(Str(<<>>), u, Undef)
  \/ \E v \in {V1, O2} : Set(Str(<<>>), v, Undef)
  \/ Set(Str(<<"a">>), O2, Undef)
  \/ \E i \in 1..Len(fetches), res \in {r \in Responses(now) : Truthy(r.body)} :
       Loaded(i, res)
  \/ \E i \in 1..Len(fetches) : Failed(i)

SpecMisuse == InitMisuse /\ [][NextMisuse]_vars

\* The writable flag: the calls that write, on writable and read-only stores
InitWritable ==
  /\ isWritable \in BOOLEAN
  /\ handlers \in {<<>>, use(<<>>, NoMatch, "h1")}
  /\ \E d \in ResetData : data = Constructed(handlers, d)
  /\ build \in {"A", "B", "C"}
  /\ now = StartTime
  /\ fetches = <<>>
  /\ last = NoCall
  /\ NewStore

NextWritable ==
  \/ Set(Str(<<"a">>), O2, Undef)
  \/ Update(Str(<<"a">>), O1, Undef)
  \/ \E d \in ResetData : Reset(d)
  \/ Fetch(Str(<<"a">>), URL, Undef)
  \/ \E i \in 1..Len(fetches), res \in {r \in Responses(now) : Truthy(r.body)} :
       Loaded(i, res)
  \/ \E i \in 1..Len(fetches) : Failed(i)

SpecWritable == InitWritable /\ [][NextWritable]_vars

\* ------------------------------------------------------------------------
\* Properties of the store
\* ------------------------------------------------------------------------

\* The key of the latest call with its leading separator removed
lastKey == IF StartsWith(last.key.s, SEP) THEN Tail(last.key.s) ELSE last.key.s

\* The latest call was a set of a non-empty key on a writable store.
LastIsSet == last.op = "set" /\ isWritable /\ Truthy(last.key)

\* C1: on a writable store where no handler modifies the call context,
\* set(k, v) of a non-empty key k and a non-alias value v followed by get(k)
\* returns v, whether no handler or some observing handlers are registered.
C1_SetThenGet ==
  (LastIsSet /\ ~_isRefValue(last.value)) => get(data, last.key) = last.value

\* The raw value stored at the top-level key k is an alias of another key.
IsAliasAt(d, k) ==
  /\ _isRefValue(propertyGet(d, k))
  /\ _parseRefKey(propertyGet(d, k).s) # k

TargetOf(d, k) == _parseRefKey(propertyGet(d, k).s)

\* The aliased key a write to key goes through, with the suffix below it
AliasOf(key) == <<Head(key)>>

SuffixOf(key) == Tail(key)

\* A step that sets an alias of another key at a top-level key holding none:
\* the alias then reads as its target.
AliasReadsAsTarget ==
  (/\ last'.op = "set" /\ isWritable /\ Len(lastKey') = 1
   /\ _isRefValue(last'.value)
   /\ ~_isRefValue(propertyGet(data, lastKey'))
   /\ _parseRefKey(last'.value.s) # lastKey')
  => get(data', last'.key) = get(data', Str(_parseRefKey(last'.value.s)))

\* A step that sets a value at or below a key holding an alias: the value
\* lands at or below the target and the alias stays.
AliasWritesThrough ==
  (/\ last'.op = "set" /\ isWritable /\ Truthy(last'.key)
   /\ ~_isRefValue(last'.value)
   /\ IsAliasAt(data, AliasOf(lastKey')))
  => /\ get(data', Str(TargetOf(data, AliasOf(lastKey')) \o SuffixOf(lastKey')))
          = last'.value
     /\ propertyGet(data', AliasOf(lastKey')) = propertyGet(data, AliasOf(lastKey'))

\* C2: after set(aliasKey, reference(k)), get(aliasKey) equals get(k); a
\* later set(aliasKey, v2) or set(aliasKey/suffix, v2) writes to k or
\* k/suffix, so that get there gives v2, and leaves the alias marker stored
\* at aliasKey in place.
C2_AliasReadWrite == [][AliasReadsAsTarget /\ AliasWritesThrough]_vars

\* What the handlers' documentation says a matcher accepts: every key when
\* it is empty, the keys a pattern is found in, the keys starting with a
\* string.
Accepts(match, key) ==
  \/ match.s = <<>>
  \/ match.kind = "re" /\ Contains(key, match.s)
  \/ match.kind = "str" /\ IsPrefix(match.s, key)

\* The handlers of the registry accepting key, in registration order
Accepting(hs, key) ==
  LET sel == SelectSeq(hs, LAMBDA e : Accepts(e.match, key))
  IN [i \in 1..Len(sel) |-> sel[i].handler]

\* C3: for a set call on a single key, every registered handler whose
\* matcher accepts the key is invoked exactly once and no other handler is,
\* in registration order, and the write is performed after them.
C3_HandlersOnceInOrder ==
  LastIsSet =>
    /\ last.invoked = Accepting(handlers, lastKey)
    /\ last.executed
    /\ ~last.threw

\* A set call was routed through two handlers of which one rejected the key.
C3_Witness ==
  /\ LastIsSet
  /\ Len(handlers) = 2
  /\ Len(last.invoked) = 1
  /\ last.executed

\* C4: the fast path and the handler path are the same: a set or reset call
\* with the same arguments from the same store state leaves the same tree
\* whether no handler is registered or only observing handlers are.
C4_FastPathIsHandlerPath ==
  handlers # <<>> =>
    /\ \A k \in Keys, v \in Values, o \in OptionsSet :
         DataStore_set(data, handlers, isWritable, Str(k), v, o).data
           = DataStore_set(data, <<>>, isWritable, Str(k), v, o).data
    /\ \A d \in ResetData :
         DataStore_reset(data, handlers, d).data = DataStore_reset(data, <<>>, d).data

\* ------------------------------------------------------------------------
\* Properties of fetch
\* ------------------------------------------------------------------------

\* The property a build keeps the freshness metadata of a value under
MetaKey == IF build = "A" THEN HEADERS_KEY ELSE EXPIRES_KEY

HasMeta(v) == isPlainObject(v) /\ HasProp(v, MetaKey)

\* The stored expiry of a value with metadata
ExpiresAt(v) ==
  IF build = "A" THEN Prop(Prop(v, MetaKey), <<"expires">>).n ELSE Prop(v, MetaKey).n

\* The seconds a value of the cache-control build stays usable past its
\* expiry while it is revalidated, and after a failed load
RevalidateWindow(v) ==
  LET cc == Prop(Prop(v, MetaKey), <<"cacheControl">>)
  IN Prop(cc, <<"staleWhileRevalidate">>).n - Prop(cc, <<"maxAge">>).n

ErrorWindow(v) ==
  LET cc == Prop(Prop(v, MetaKey), <<"cacheControl">>)
  IN RevalidateWindow(v) + Prop(cc, <<"staleIfError">>).n - Prop(cc, <<"maxAge">>).n

\* The freshness states of a stored value v at time t for a fetch with the
\* options opts
Fresh(v, t) == HasMeta(v) /\ t < ExpiresAt(v)

StaleRevalidatable(v, t, opts) ==
  /\ HasMeta(v)
  /\ t > ExpiresAt(v)
  /\ IF build = "A" THEN t <= ExpiresAt(v) + RevalidateWindow(v) * 1000
     ELSE Truthy(Prop(opts, <<"staleWhileRevalidate">>))

Expired(v, t) ==
  /\ HasMeta(v)
  /\ build = "A"
  /\ t > ExpiresAt(v) + ErrorWindow(v) * 1000

\* A value without its freshness metadata
Payload(v) ==
  IF HasMeta(v)
  THEN Obj([k \in DOMAIN v.kids \ {MetaKey[1]} |-> v.kids[k]])
  ELSE v

\* The calls of fetch a step adds
NewFetches == (Len(fetches) + 1)..Len(fetches')

\* C5: a fetch(key, url) issued while the cached value at key is Fresh makes
\* no call of the transport, resolves with the cached value as body and
\* leaves the tree unchanged.
C5_FreshFetchNoLoad ==
  [][\A i \in NewFetches :
       LET f == fetches'[i]
       IN (Truthy(f.url) /\ Fresh(f.value0, f.t0))
          => /\ f.load = "none"
             /\ f.state = "resolved"
             /\ f.body = f.value0
             /\ data' = data]_vars

\* C6: a fetch(key, url) issued when nothing is stored at key, whose load
\* succeeds with a non-empty body, calls the transport once, and once its
\* promise has resolved get(key) is the fetched body and so is the body of
\* the response.
C6_MissingFetchStores ==
  \A i \in 1..Len(fetches) :
    LET f == fetches[i]
    IN (/\ isWritable /\ Truthy(f.url) /\ f.value0 = Undef
        /\ f.load = "ok" /\ Truthy(f.fetched)
        /\ f.state = "resolved")
       => /\ Payload(f.stored) = f.fetched
          /\ f.body = f.stored

\* C7: a fetch(key, url) issued while the cached value is
\* Stale-Revalidatable resolves with the old value without waiting for a
\* load and starts a background load; once that load has succeeded get(key)
\* is the newly loaded value.
C7_StaleWhileRevalidate ==
  \A i \in 1..Len(fetches) :
    LET f == fetches[i]
    IN (Truthy(f.url) /\ StaleRevalidatable(f.value0, f.t0, f.opts))
       => /\ f.state = "resolved"
          /\ f.body = f.value0
          /\ f.load # "none"
          /\ (f.load = "ok" /\ Truthy(f.fetched)) => Payload(f.stored) = f.fetched

\* C8: when the load of a fetch has failed, its promise rejects with the
\* transport's error if and only if rejectOnError is set and the cached
\* value is absent or Expired; otherwise it resolves with the cached value
\* as body and the error attached.
C8_FailedLoad ==
  \A i \in 1..Len(fetches) :
    LET f == fetches[i]
        rejectOnError == f.opts = Undef \/ Truthy(Prop(f.opts, <<"rejectOnError">>))
        unusable == f.value0 = Undef \/ Expired(f.value0, f.t1)
    IN (build = "A" /\ f.load = "failed" /\ (f.value0 = Undef \/ HasMeta(f.value0)))
       => IF rejectOnError /\ unusable
          THEN f.state = "rejected" /\ f.error = TransportError
          ELSE f.state = "resolved" /\ f.body = f.value0 /\ f.error = TransportError

\* C9: fetchAll does not reject as a whole when the load of one entry fails:
\* with the load of k1 failed and the load of k2 succeeded it resolves with
\* one outcome for each, the one of k1 with the error and the one of k2 with
\* the fetched body.
C9_FetchAllNeverRejects ==
  (/\ Len(fetches) = 2 /\ fetches[1].batch /\ fetches[2].batch
   /\ fetches[1].load = "failed"
   /\ fetches[2].load = "ok" /\ Truthy(fetches[2].fetched))
  => /\ PromiseAll(fetches) = "resolved"
     /\ fetches[1].error = TransportError
     /\ Payload(fetches[2].body) = fetches[2].fetched

\* ------------------------------------------------------------------------
\* Properties of a read-only store
\* ------------------------------------------------------------------------

\* C10 as stated: in a store constructed with isWritable false no operation
\* changes the tree: set, update, reset and the write-back of a load all
\* leave it as it was.
C10_ReadOnlyNeverChanges == [][~isWritable => data' = data]_vars

\* C10: in a store constructed with isWritable false, set, update and the
\* write-back of a load leave the tree as it was; the only step that changes
\* the tree is a reset, which replaces it.
C10_ReadOnlyChangesByResetOnly ==
  [][(~isWritable /\ data' # data) => (last'.op = "reset" /\ fetches' = fetches)]_vars

\* A read-only store on which update was called after the load of a fetch
\* gave a body to write back.
C10_Witness ==
  /\ ~isWritable
  /\ last.op = "update"
  /\ \E i \in 1..Len(fetches) : fetches[i].load = "ok" /\ Truthy(fetches[i].fetched)

\* ------------------------------------------------------------------------
\* Handler registry
\* ------------------------------------------------------------------------

Without(hs, fns) == SelectSeq(hs, LAMBDA e : e.handler \notin fns)

\* C11: unuse(matcher, h) removes every entry whose handler is h, whatever
\* matcher it was registered under and however often, and keeps the other
\* entries in their order; the batch form does so for each pair in turn.
C11_UnuseRemovesEveryEntry ==
  /\ \A m \in Matchers, h \in HandlerFns :
        unuse(handlers, m, h) = Without(handlers, {h})
  /\ \A m1, m2 \in Matchers, h1, h2 \in HandlerFns :
        unuseBatch(handlers, <<<<m1, h1>>, <<m2, h2>>>>)
          = Without(handlers, {h1, h2})

\* h1 is registered twice under different matchers, with another handler
\* around it.
C11_Witness ==
  /\ Len(handlers) = 3
  /\ handlers[1].handler = "h1" /\ handlers[3].handler = "h1"
  /\ handlers[1].match # handlers[3].match
  /\ handlers[2].handler = "h2"

\* ------------------------------------------------------------------------
\* JSON export
\* ------------------------------------------------------------------------

\* C12: once setSerialisabilityOfKey(k, false) was called for a key k of any
\* depth, given with or without a leading separator, the export toJSON()
\* holds neither k nor a descendant of k and holds every other key with its
\* stored value; the call itself leaves the tree, and so get(k) and get of
\* its descendants, as they were.
C12_ExcludedKeysNotExported ==
  [][LET segsOf == {<<"a">>, <<"b">>, <<"c">>}
         Paths == UNION {[1..n -> segsOf] : n \in 1..3}
         isOff(p) == \E i \in 1..Len(p) :
                       /\ Join(SubSeq(p, 1, i)) \in DOMAIN serialisableKeys'
                       /\ ~serialisableKeys'[Join(SubSeq(p, 1, i))]
         stored(p) == getPath(data', p)
         exported(p) == getPath(last'.value, p)
         given == last'.key.s
         path == Split(IF StartsWith(given, SEP) THEN Tail(given) ELSE given)
     IN /\ last'.op = "setSerialisabilityOfKey" =>
             /\ data' = data
             /\ \A k \in ExportKeys : get(data', Str(k)) = get(data, Str(k))
             /\ last'.value = Bool(FALSE) =>
                  getPath(toJSON(data', serialisableKeys', Undef), path) = Undef
        /\ last'.op = "toJSON" =>
             \A p \in Paths :
               IF isOff(p) THEN exported(p) = Undef
               ELSE IF isPlainObject(stored(p)) THEN isPlainObject(exported(p))
               ELSE exported(p) = stored(p)]_vars

\* toJSON() was called with a/b excluded and present in the tree: a/b is
\* not exported, its sibling a/c and the alias c are.
C12_Witness ==
  /\ last.op = "toJSON"
  /\ <<"a", SEP, "b">> \in DOMAIN serialisableKeys
  /\ ~serialisableKeys[<<"a", SEP, "b">>]
  /\ getPath(data, <<<<"a">>, <<"b">>, <<"c">>>>) = V1
  /\ getPath(last.value, <<<<"a">>, <<"b">>>>) = Undef
  /\ getPath(last.value, <<<<"a">>, <<"c">>>>) = V2
  /\ _isRefValue(getPath(last.value, <<<<"c">>>>))

\* The values a value holds that are neither mappings nor sequences
RECURSIVE LeavesOf(_)
LeavesOf(value) ==
  IF isPlainObject(value)
  THEN UNION {LeavesOf(value.kids[k]) : k \in DOMAIN value.kids}
  ELSE IF value.t = "arr"
  THEN UNION {LeavesOf(value.kids[i]) : i \in 1..Len(value.kids)}
  ELSE {value}

\* The paths of up to three segments
TreePaths == UNION {[1..n -> {<<"a">>, <<"b">>, <<"c">>}] : n \in 1..3}

\* The path an alias marker points to
PathOf(marker) == Split(_parseRefKey(marker.s))

\* C13: dump(false) returns a copy of the whole tree in which no alias
\* marker is left at any depth: an alias that is the value of a mapping, an
\* element of a sequence or the target of another alias is replaced by what
\* the dump holds for its target, every other value is copied, and the
\* stored tree is left as it was.
C13_DumpExpandsEveryAlias ==
  [][last'.op = "dump" =>
       LET result == last'.value
       IN /\ data' = data
          /\ \A leaf \in LeavesOf(result) : ~_isRefValue(leaf)
          /\ \A p \in TreePaths :
               LET stored == getPath(data, p)
               IN IF _isRefValue(stored)
                  THEN getPath(result, p) = getPath(result, PathOf(stored))
                  ELSE IF stored.t = "arr"
                  THEN /\ getPath(result, p).t = "arr"
                       /\ Len(getPath(result, p).kids) = Len(stored.kids)
                       /\ \A i \in 1..Len(stored.kids) :
                            getPath(result, p).kids[i] =
                              IF _isRefValue(stored.kids[i])
                              THEN getPath(result, PathOf(stored.kids[i]))
                              ELSE stored.kids[i]
                  ELSE IF isPlainObject(stored)
                  THEN isPlainObject(getPath(result, p))
                  ELSE stored # Undef => getPath(result, p) = stored]_vars

\* The tree dumped holds an alias of an alias and a sequence with aliases in
\* it, and the dump holds the target's value at each of them.
C13_Witness ==
  /\ last.op = "dump"
  /\ data = ChainData
  /\ getPath(last.value, <<<<"b">>>>) = Obj([b |-> V1])
  /\ getPath(last.value, <<<<"c">>>>) = Arr(<<Obj([b |-> V1]), V2, V1>>)

\* key is an alias of itself or one of two aliases of each other
InCycle(key) ==
  LET stored(k) == getPath(data, <<k>>)
      aliasOf(k, j) == stored(k) = Str(<<REF_KEY>> \o j)
  IN \E j \in {<<"a">>, <<"b">>, <<"c">>} : aliasOf(key, j) /\ aliasOf(j, key)

C15_DestroyEmptiesStore ==
  [][/\ last'.op = "destroy" =>
          /\ cursors' = <<>>
          /\ \A i \in 1..Len(made') : made'[i].destroyed
          /\ handlers' = <<>>
          /\ data' = EmptyObj
          /\ serialisableKeys' = <<>>
          /\ destroyed' = TRUE
     /\ last.op = "destroy" /\ last'.op = "set" => last'.invoked = <<>>]_vars

\* A store that had two cursors and was destroyed, and was written to next
C15_Witness ==
  /\ destroyed
  /\ Len(made) >= 2
  /\ \A i \in 1..Len(made) : made[i].destroyed
  /\ last.op = "set" /\ last.executed
  /\ cursors = <<>> /\ handlers = <<>> /\ serialisableKeys = <<>>

\* C18: createCursor returns the same cursor for two keys that name the same
\* prefix (the same key, the key with and without its leading separator, an
\* alias key and its target key) and different cursors for keys of different
\* prefixes, and the registry holds one cursor for a prefix.
C18_OneCursorPerPrefix ==
  last.op = "createCursor" =>
    LET bare(k) == IF StartsWith(k, SEP) THEN Tail(k) ELSE k
        keyOf(v) == IF v.t = "str" THEN v.s ELSE <<>>
        first == bare(keyOf(last.key))
        stored(k) == propertyGet(data, k)
        isAliasOf(k, t) == _isRefValue(stored(k)) /\ bare(_parseRefKey(stored(k).s)) = t
        isAlias(k) == _isRefValue(stored(k))
        again(k) == createCursor(data, cursors, made, IF k = <<>> THEN Undef ELSE Str(k)).cursor
    IN /\ \A k \in CursorKeys :
            /\ bare(k) = first => again(k) = last.value.n
            /\ isAliasOf(bare(k), first) \/ isAliasOf(first, bare(k))
                 => again(k) = last.value.n
            /\ ~isAlias(bare(k)) /\ ~isAlias(first) /\ bare(k) # first
                 => again(k) # last.value.n
       /\ \A p, q \in DOMAIN cursors : p # q => cursors[p] # cursors[q]
       /\ \A q \in DOMAIN cursors : made[cursors[q]].key = q

\* The loads of the fetches are as they were before the step
LoadsUntouched ==
  /\ Len(fetches') = Len(fetches)
  /\ \A i \in 1..Len(fetches) : fetches'[i].load = fetches[i].load

\* C16 as stated: destroy() of a fetchable store aborts no load in flight
\* and leaves the tracked keys as they were.
C16_DestroyLeavesFetchesAlone ==
  [][Destroy => LoadsUntouched /\ fetchedKeys' = fetchedKeys]_vars

\* C16: destroy() of a fetchable store calls abort() first, so the tracked
\* keys are empty after it; on the server runtime no load in flight is
\* aborted by it.
C16_DestroyClearsTrackedKeys ==
  [][Destroy => LoadsUntouched /\ fetchedKeys' = {}]_vars

\* Right after destroy(): a load is still in flight and no key is tracked.
C16_Witness ==
  /\ last.op = "destroy"
  /\ destroyed
  /\ fetchedKeys = {}
  /\ \E i \in 1..Len(fetches) : fetches[i].load = "inflight"

\* C17: abort() finds every key with a load in flight among the tracked
\* keys and leaves no key tracked, and no load that was in flight then
\* writes into the tree later; abort(k) for a key with no load in flight
\* changes neither the tree nor the load of another key.
C17_AbortCancelsLoads ==
  [][LET inflight(i) == fetches[i].load = "inflight"
         tracked(i) == fetches[i].key.s \in fetchedKeys
     IN /\ Abort(Undef) =>
             /\ \A i \in 1..Len(fetches) : inflight(i) => tracked(i)
             /\ fetchedKeys' = {}
        /\ \A k \in {<<"a">>, <<"b">>} :
             /\ Abort(Str(k))
             /\ (\A i \in 1..Len(fetches) : inflight(i) => fetches[i].key # Str(k))
             => data' = data /\ LoadsUntouched
        /\ \A i \in 1..Len(fetches) :
             inflight(i) /\ ~tracked(i) /\ fetches'[i].load = "ok" => data' = data]_vars

\* ------------------------------------------------------------------------
\* Calls without a url or without a key
\* ------------------------------------------------------------------------

\* C19: a fetch for a key whose value is missing or past its expiry, called
\* without a url, calls no transport, resolves with the stored value as the
\* body of its response and leaves the tree unchanged.
C19_FetchWithoutUrlResolves ==
  [][\A i \in NewFetches :
       LET f == fetches'[i]
           isMissing == ~Truthy(f.value0)
           isExpired == HasMeta(f.value0) /\ f.t0 > ExpiresAt(f.value0)
       IN Truthy(f.key) /\ ~Truthy(f.url) /\ (isMissing \/ isExpired)
          => /\ f.load = "none"
             /\ f.state = "resolved"
             /\ f.body = f.value0
             /\ data' = data]_vars

\* C20: a fetch without a key or with the empty key and a set with the
\* empty key raise nothing, reject nothing, invoke no handler, call no
\* transport and leave the tree unchanged.
C20_MisuseIsSilent ==
  [][/\ \A i \in NewFetches :
          ~Truthy(fetches'[i].key)
          => /\ fetches'[i].state # "rejected"
             /\ fetches'[i].load = "none"
             /\ data' = data
     /\ last' # last /\ last'.op = "set" /\ ~Truthy(last'.key)
          => ~last'.threw /\ last'.invoked = <<>> /\ data' = data]_vars

\* ------------------------------------------------------------------------
\* Handlers of a method without a key
\* ------------------------------------------------------------------------

\* The handlers of the registry chosen by keep, in registration order
HandlersWhere(keep(_)) ==
  LET sel == SelectSeq(handlers, keep)
  IN [i \in 1..Len(sel) |-> sel[i].handler]

\* C21: a reset invokes exactly the handlers registered with no matcher, in
\* their order, completes normally and replaces the tree by the data given.
C21_ResetInvokesMatchAllOnly ==
  last.op = "reset" =>
    /\ last.invoked = HandlersWhere(LAMBDA e : e.match = NoMatch)
    /\ ~last.threw
    /\ last.executed
    /\ data = last.key

\* C22: a reset matches and executes every registered handler, whatever
\* matcher it was registered with.
C22_ResetInvokesEveryHandler ==
  last.op = "reset" =>
    /\ last.invoked = HandlersWhere(LAMBDA e : TRUE)
    /\ last.executed

\* ------------------------------------------------------------------------
\* Key resolution
\* ------------------------------------------------------------------------

\* The top-level keys of the model's trees
TopKeys == {<<"a">>, <<"b">>, <<"c">>}

\* In the tree d the key k holds an alias of the key t
HoldsAliasOf(d, k, t) == propertyGet(d, k) = Str(<<REF_KEY>> \o t)

\* C23: key resolution follows a chain of aliases to its end: when k1 is an
\* alias of k2 and k2 an alias of k3, which holds no alias, k1 resolves to
\* k3, and set(k1, v) writes v at k3 and leaves the alias at k2 as it was;
\* a set on a key of a cycle of aliases signals an error.
C23_ChainsResolveToFixedPoint ==
  [][last' # last /\ last'.op = "set" /\ last'.key.t = "str" =>
       LET k1 == last'.key.s
       IN /\ \A k2, k3 \in TopKeys :
               /\ HoldsAliasOf(data, k1, k2) /\ HoldsAliasOf(data, k2, k3)
               /\ ~_isRefValue(propertyGet(data, k3))
               => /\ _resolveRefKey(data, k1) = k3
                  /\ propertyGet(data', k3) = last'.value
                  /\ HoldsAliasOf(data', k2, k3)
          /\ \A k2 \in TopKeys :
               HoldsAliasOf(data, k1, k2) /\ HoldsAliasOf(data, k2, k1)
               => last'.threw]_vars

\* The key a set or get was given, its leading separator stripped
Stripped(key) == IF StartsWith(key, SEP) THEN Tail(key) ELSE key

\* The value stored at the first i segments of segs
StoredAt(d, segs, i) == propertyGet(d, Join(SubSeq(segs, 1, i)))

\* The indices of the segments of segs at which the tree d holds an alias
AliasIndices(d, segs) ==
  {i \in 1..Len(segs) : _isRefValue(StoredAt(d, segs, i))}

\* What the resolution of key is to return: the target of the key that is
\* itself an alias, else the target of the first alias on the path followed
\* by the segments after it, else the key
NearestAlias(d, key0) ==
  IF _isRefValue(Str(key0)) THEN Tail(key0)
  ELSE LET key == Stripped(key0)
           segs == Split(key)
           n == Len(segs)
           found == AliasIndices(d, segs)
       IN IF found = {} THEN key
          ELSE LET i == CHOOSE j \in found : \A m \in found : j <= m
                   T == Tail(StoredAt(d, segs, i).s)
               IN IF i = n THEN T
                  ELSE T \o <<SEP>> \o Join(SubSeq(segs, i + 1, n))

\* C24: a key resolves to the target of the first alias on its path, followed
\* by the segments after the alias; to itself (leading separator stripped)
\* when no node on its path holds an alias; and to its own target when the
\* key is an alias-encoded string.
C24_ResolvesToNearestAlias ==
  \A k \in AliasKeys : _resolveRefKey(data, k) = NearestAlias(data, k)

\* What the resolution of key returns: as NearestAlias, but an alias whose
\* target is the key itself gets nothing appended
NearestAliasOrSelf(d, key0) ==
  IF _isRefValue(Str(key0)) THEN Tail(key0)
  ELSE LET key == Stripped(key0)
           segs == Split(key)
           n == Len(segs)
           found == AliasIndices(d, segs)
       IN IF found = {} THEN key
          ELSE LET i == CHOOSE j \in found : \A m \in found : j <= m
                   T == Tail(StoredAt(d, segs, i).s)
               IN IF i = n \/ T = key THEN T
                  ELSE T \o <<SEP>> \o Join(SubSeq(segs, i + 1, n))

\* C24 (amended): a key resolves to the target of the first alias on its
\* path, followed by the segments after the alias unless that target is the
\* key itself; to itself (leading separator stripped) when no node on its
\* path holds an alias; and to its own target when the key is an
\* alias-encoded string.
C24_ResolvesToNearestAliasOrSelf ==
  \A k \in AliasKeys : _resolveRefKey(data, k) = NearestAliasOrSelf(data, k)

\* A value was set at a/b while a was an alias of b, and is stored at b/b
C24_Witness ==
  /\ last.op = "set" /\ last.key = Str(<<"a", SEP, "b">>) /\ last.value = V2
  /\ HoldsAliasOf(data, <<"a">>, <<"b">>)
  /\ propertyGet(data, <<"b", SEP, "b">>) = V2

\* ------------------------------------------------------------------------
\* Failed and late loads
\* ------------------------------------------------------------------------

\* rejectOnError is set for the fetch f: given by the caller, or by the
\* defaults of the build that has the option
RejectOnError(f) ==
  Truthy(Prop(IF build = "A" THEN assignOptions(DEFAULT_LOAD_OPTIONS_A, f.opts)
              ELSE f.opts,
              <<"rejectOnError">>))

\* C25: the failure of the load of a fetch for which rejectOnError is not
\* set leaves the data tree as it was: the value at the key and its freshness
\* metadata are cleared by a failed load only when rejectOnError is set.
C25_FailedLoadLeavesTree ==
  [][\A i \in 1..Len(fetches) :
       Failed(i) /\ ~RejectOnError(fetches[i]) => data' = data]_vars

\* The promise of fetch i is resolved by this step
ResolvedNow(i) ==
  /\ i \in 1..Len(fetches')
  /\ i > Len(fetches) \/ fetches[i].state = "pending"
  /\ fetches'[i].state = "resolved"

\* C26: when the promise of a fetch resolves with a defined body, that body
\* is the value get returns for the key of the fetch at that moment; so the
\* stale value a failed load resolves with is still stored at the key.
C26_BodyIsStoredValue ==
  [][\A i \in 1..Len(fetches') :
       ResolvedNow(i) /\ fetches'[i].body # Undef
       => get(data', fetches'[i].key) = fetches'[i].body]_vars

\* C27: a destroyed store stays empty: while no fetch has been issued since
\* destroy, the end of a load that was in flight when destroy ran writes
\* neither its body nor a cleared value into the tree, and no handler is
\* registered that it could invoke.
C27_DestroyedStoreStaysEmpty ==
  [][destroyed /\ fetchedKeys = {} => data' = EmptyObj /\ handlers' = <<>>]_vars

\* ------------------------------------------------------------------------
\* Dispatch to handlers that change the registry
\* ------------------------------------------------------------------------

\* How often the handler h is in the sequence of handlers seq
Times(seq, h) == Cardinality({i \in 1..Len(seq) : seq[i] = h})

\* C28: a set dispatched to handlers that call use or unuse completes
\* without error, executes the implementation, and has invoked once every
\* registered handler that accepts the key and is still registered after it.
C28_DispatchSurvivesRegistryChanges ==
  [][\A k \in {<<"a">>, <<"b">>} :
       SetLive(Str(k), V1, Undef) /\ handlers # <<>> =>
         /\ ~last'.threw
         /\ last'.executed
         /\ \A h \in RegistryHandlers :
              (\E i \in 1..Len(handlers') : handlers'[i].handler = h)
              => Times(last'.invoked, h) = Times(Accepting(handlers, k), h)]_vars

\* ------------------------------------------------------------------------
\* Loads written through set
\* ------------------------------------------------------------------------

\* The stored value holds every property of the body the transport gave
HoldsBody(stored, body) ==
  /\ stored.t = "obj"
  /\ \A name \in DOMAIN body.kids : Prop(stored, <<name>>) = body.kids[name]

\* C29: a load that succeeds with a body is written through set: the
\* handlers accepting the key of the fetch are each invoked once, in order,
\* and the body is then stored at that key; a load without a body writes
\* nothing and invokes no handler.
C29_LoadsWrittenThroughSet ==
  [][\A i \in 1..Len(fetches), res \in Responses(now) :
       Loaded(i, res) =>
         LET s == loaded(build, data, handlers, isWritable, fetches[i].ld, res, now)
         IN IF Truthy(res.body)
            THEN /\ s.invoked = Accepting(handlers, fetches[i].key.s)
                 /\ HoldsBody(get(data', fetches[i].key), res.body)
            ELSE data' = data /\ s.invoked = <<>>]_vars

\* The default cache-control of the fetch f, parsed
DefaultCacheControl(f) ==
  parseCacheControl(Prop(assignOptions(DEFAULT_LOAD_OPTIONS_A, f.opts),
                         <<"cacheControl">>))

\* Each of the three durations of the cache-control cc is at least the one
\* of the cache-control def
AtLeast(cc, def) ==
  \A name \in {"maxAge", "staleWhileRevalidate", "staleIfError"} :
    /\ Prop(cc, <<name>>).t = "num"
    /\ Prop(cc, <<name>>).n >= Prop(def, <<name>>).n

\* C30: the freshness metadata stored by a successful load has maxAge,
\* staleWhileRevalidate and staleIfError at least as large as the default
\* cache-control of the fetch, whatever the cache-control of the response.
C30_MetadataAtLeastDefaults ==
  [][\A i \in 1..Len(fetches), res \in Responses(now) :
       /\ build = "A" /\ handlers = <<>>
       /\ Loaded(i, res)
       /\ Truthy(res.body) /\ Truthy(res.headers)
       => AtLeast(Prop(Prop(get(data', fetches[i].key), HEADERS_KEY),
                       <<"cacheControl">>),
                  DefaultCacheControl(fetches[i]))]_vars

\* ------------------------------------------------------------------------
\* Expiry of a loaded value
\* ------------------------------------------------------------------------

\* The expiry stored with the value v: expires of its freshness metadata in
\* the cache-control build, its expires property in the stale-flags builds
StoredExpiry(v) ==
  IF build = "A" THEN Prop(Prop(v, HEADERS_KEY), <<"expires">>)
  ELSE Prop(v, EXPIRES_KEY)

\* C31: after a successful load whose response carries an expires header
\* the expiry stored with the value is not earlier than the time of the
\* load, and a fetch of the key that follows at once starts no load.
C31_LoadedValueIsFresh ==
  [][\A i \in 1..Len(fetches), res \in ExpiryResponses(now) :
       Loaded(i, res) =>
         LET stored == get(data', fetches[i].key)
         IN /\ StoredExpiry(stored).t = "num"
            /\ StoredExpiry(stored).n >= now
            /\ ~fetchImpl(build, data', fetches[i].key, URL,
                          fetches[i].opts, now).load]_vars

\* C32: a fetch whose load succeeds is resolved, not rejected, and its
\* response carries no error, whatever was stored at the key before; so
\* too when the load gives no body and nothing is stored at the key.
C32_LoadedFetchResolvesClean ==
  [][\A i \in 1..Len(fetches), res \in Responses(now) :
       Loaded(i, res) /\ fetches[i].state = "pending"
       => fetches'[i].state = "resolved" /\ fetches'[i].error = Undef]_vars

\* ------------------------------------------------------------------------
\* Handlers that rewrite the context
\* ------------------------------------------------------------------------

\* The handler h is among the handlers invoked
Invoked(invoked, h) == \E i \in 1..Len(invoked) : invoked[i] = h

\* What a write of value over the stored value old leaves when merging is
\* on or off
Written(old, value, merging) ==
  IF merging /\ isPlainObject(value) /\ isPlainObject(old)
  THEN merge(old, value) ELSE value

\* C33: a set(k1, v1) handled by a handler that batches (k2, v2) into it
\* stores v1 at k1 and v2 at k2, and one handled by a handler that merges
\* options o into it writes with o where the caller gave no option and with
\* the caller's option where it gave one.
C33_HandlersBatchAndMerge ==
  [][\A k \in {<<"a">>, <<"c">>}, v \in BatchValues, o \in BatchOptions :
       Set(Str(k), v, o) /\ handlers # <<>> =>
         LET offered == Invoked(last'.invoked, "mergeO")
             merging == IF HasProp(o, <<"merge">>) THEN Truthy(Prop(o, <<"merge">>))
                        ELSE IF offered THEN Truthy(Prop(OfferedOptions, <<"merge">>))
                        ELSE Truthy(Prop(DEFAULT_OPTIONS, <<"merge">>))
         IN /\ propertyGet(data', k) = Written(propertyGet(data, k), v, merging)
            /\ Invoked(last'.invoked, "batchB")
               => propertyGet(data', BatchedKey)
                    = Written(propertyGet(data, BatchedKey), BatchedValue, merging)]_vars

\* ------------------------------------------------------------------------
\* Cursor prefixes
\* ------------------------------------------------------------------------

====
